---------------------------- MODULE Spec2Model ----------------------------
(***************************************************************************)
(* A model of PureSpice's multi-channel protocol engine.                   *)
(*                                                                         *)
(* The engine is modelled as several state machines over one set of        *)
(* variables.  Each specification exercises one part of the library and    *)
(* leaves the variables of the other parts at their idle values:           *)
(*                                                                         *)
(*   SpecMotion  purespice_mouseMotion run by one thread on inputs drawn   *)
(*               in Init (the packetisation arithmetic).                   *)
(*   SpecMouse   the input API called by application threads while the     *)
(*               process thread handles the server's motion acks.          *)
(*   SpecClip    agent_process reassembling a clipboard transfer from the  *)
(*               agent-data carriers of the main channel.                  *)
(*   SpecAgent   the agent's outbound queue and the server's token grants. *)
(*   SpecSend    the senders of the RECORD channel during and after the    *)
(*               link handshake.                                           *)
(*   SpecFrame   purespice_process reading the server's byte streams on    *)
(*               two channels, with teardown and reconnection.             *)
(*   SpecAck     the motion acks of SpecMouse with a server that may also  *)
(*               send an ack no motion packet accounts for.                *)
(*   SpecConnect purespice_connectChannel on a channel that a channels     *)
(*               list may withdraw and restore.                            *)
(*   SpecShutdown  purespice_disconnect between two purespice_process      *)
(*               calls; SpecShutdownFair adds that the calls go on.        *)
(*   SpecMain    the main channel's NAME, UUID and CHANNELS_LIST handlers. *)
(*   SpecRound   the loop of purespice_process at message granularity with *)
(*               an unbounded server; SpecRoundFair adds that it goes on.  *)
(*   SpecConfig  purespice_connect on a configuration of the application.  *)
(*   SpecLink    the link handshake of a channel against a server that may *)
(*               deviate at any of its steps.                              *)
(*   SpecButtons mousePress and mouseRelease across a teardown and a       *)
(*               reconnection of the INPUTS channel.                       *)
(*   SpecDrain   the agent queue with one sender; SpecDrainFair adds the   *)
(*               scheduling the drain relies on.                           *)
(*   SpecProto   SpecFrame's receive path with a server that breaks the    *)
(*               protocol; SpecRetry adds a caller that calls              *)
(*               purespice_process again after an error.                   *)
(*   SpecClipOut clipboardDataStart and clipboardData with capability      *)
(*               replies sent in between.                                  *)
(*   SpecKeys    purespice_keyDown and purespice_keyUp.                    *)
(*   SpecAgentLife the agent's queue across agent_disconnect and           *)
(*               agent_connect, with clipboard calls under way.            *)
(*   SpecClipOver  SpecClip with carriers longer than what remains;        *)
(*               SpecClipLife adds empty messages and agent restarts.      *)
(*   SpecClose   the server closing sockets; SpecTeardown follows          *)
(*               purespice_disconnect channel by channel.                  *)
(*   SpecBye     SpecFrame with a server that sends DISCONNECTING.         *)
(*   SpecSession sessions one after the other and their link packets.      *)
(*   SpecReady   the handshakes of SpecLink with the teardowns of          *)
(*               SpecClose.                                                *)
(*   SpecLocks   the lock and send skeleton of every locking call.         *)
(*                                                                         *)
(* Threads take one step per shared-memory access or system call: a lock   *)
(* acquisition, an atomic read-modify-write, a send().                     *)
(***************************************************************************)
EXTENDS Integers, Sequences, FiniteSets, TLC

(***************************************************************************)
(* Bounds of the model.                                                    *)
(***************************************************************************)
MaxDelta == 20
MaxCalls == 2
MaxClipLen == 3
MaxClipMsgs == 2
MaxAgentMsgs == 1
MaxChunks == 2
MaxTokens == 1
MaxGrants == 2
MaxSrvMsgs == 3
MaxReconnect == 1

(***************************************************************************)
(* Program constants.                                                      *)
(***************************************************************************)
SPICE_INPUT_MOTION_ACK_BUNCH == 16
MotionLimit == 127
VDAgentMessageSize == 20
SelectionSize == 4
ClipTypeSize == 4
HeaderSize == 6
SetAckSize == 8
InputsInitSize == 2

VARIABLES
  channels,      \* g_ps.channels: per channel connected / ready
  lock,          \* the spin flags: one per channel, plus g_ps.mouse.lock
  wire,          \* per channel, the chunks written to its socket, in order
  pc,            \* per thread, the position in the call it runs
  tl,            \* per thread, the locals of the call it runs
  mouse,         \* g_ps.mouse: buttonState, sentCount
  motionBuffer,  \* g_ps.motionBuffer / g_ps.motionBufferSize
  server,        \* the peer: motion acks it has sent, acks not yet read
  hist,          \* history: packets attempted, acks handled, last status
  agent,         \* the agent module's state (agent.c: struct PSAgent)
  net,           \* what the server has sent and the client has not yet read
  session,       \* g_ps outside the channel table: connected, epollfd
  cm             \* the main channel's state (channel_main.c: struct ChannelMain)

vars == <<channels, lock, wire, pc, tl, mouse, motionBuffer, server, hist,
          agent, net, session, cm>>

Channels == {"MAIN", "INPUTS", "PLAYBACK", "RECORD"}
Locks == Channels \cup {"mouse", "queue"}
AppThreads == {"app1", "app2"}
Threads == AppThreads \cup {"proc"}
Free == "free"

Min(a, b) == IF a < b THEN a ELSE b
Max(a, b) == IF a > b THEN a ELSE b
abs(a) == IF a < 0 THEN -a ELSE a

RECURSIVE SumX(_)
SumX(s) == IF s = <<>> THEN 0 ELSE Head(s).x + SumX(Tail(s))
RECURSIVE SumY(_)
SumY(s) == IF s = <<>> THEN 0 ELSE Head(s).y + SumY(Tail(s))


(***************************************************************************)
(* Mouse input (channel_inputs.c).                                         *)
(***************************************************************************)

\* The deltas a caller may pass: a dense range around zero and the values
\* around the multiples of the per-message limit, up to the largest delta
\* the property speaks of.
BoundaryDeltas ==
  {126, 127, 128, 253, 254, 255, 300, 381, 382, 10000,
   -126, -127, -128, -253, -254, -255, -300, -381, -382, -10000}
MotionDeltas == ((0 - MaxDelta)..MaxDelta) \cup BoundaryDeltas

\* The button masks of channel_inputs.c, as the set of buttons held.
MouseButtons == {"LEFT", "RIGHT"}

\* m->x = x > 127 ? 127 : (x < -127 ? -127 : x)
ClampDelta_mut(v) ==
  IF v > MotionLimit + 1 THEN MotionLimit + 1
  ELSE IF v < 0 - MotionLimit THEN 0 - MotionLimit ELSE v
ClampDelta(v) ==
  IF v > MotionLimit THEN MotionLimit
  ELSE IF v < 0 - MotionLimit THEN 0 - MotionLimit ELSE v

\* delta = abs(x) > abs(y) ? abs(x) : abs(y);  msgs = (delta + 126) / 127
MotionMsgs(x, y) ==
  (Max(abs(x), abs(y)) + (MotionLimit - 1)) \div MotionLimit

Junk == [x |-> 0, y |-> 0, button_state |-> {"junk"}]
JunkSeq(n) == [i \in 1..n |-> Junk]

\* atomic_fetch_add(&g_ps.mouse.sentCount, msgs)
MotionSentDelta(msgs) == msgs

IdleLocals == [fn |-> "none", ret |-> TRUE]
Returned(t, fn, ret) == [tl EXCEPT ![t] = [fn |-> fn, ret |-> ret, id |-> tl[t].id,
                                             x |-> tl[t].x, y |-> tl[t].y]]

InputsReady == channels["INPUTS"].connected /\ channels["INPUTS"].ready

CallsOf(t) == hist.calls[t]

\* purespice_mouseMotion, entry: the ready check and the message count.
mouseMotion_entry(t, x, y) ==
  /\ pc[t] = "idle"
  /\ CallsOf(t) < MaxCalls
  /\ hist' = [hist EXCEPT !.calls[t] = @ + 1]
  /\ IF ~InputsReady
       THEN /\ tl' = [tl EXCEPT ![t] = [fn |-> "mouseMotion", ret |-> FALSE,
                                        id |-> <<t, CallsOf(t) + 1>>,
                                        x |-> x, y |-> y]]
            /\ pc' = pc
       ELSE /\ tl' = [tl EXCEPT ![t] =
                        [fn |-> "mouseMotion", id |-> <<t, CallsOf(t) + 1>>,
                         x |-> x, y |-> y, msgs |-> MotionMsgs(x, y),
                         rx |-> x, ry |-> y, buf |-> 0, built |-> <<>>]]
            /\ pc' = [pc EXCEPT ![t] =
                        IF MotionMsgs(x, y) = 1 THEN "mm1_lockmouse" ELSE "mm_alloc"]
  /\ UNCHANGED <<session, cm, agent, net, channels, lock, wire, mouse, motionBuffer, server>>

\* if (bufferSize > g_ps.motionBufferSize) { free; malloc; }  buffer = ...
mouseMotion_alloc(t) ==
  /\ pc[t] = "mm_alloc"
  /\ LET grow == tl[t].msgs > motionBuffer.size
         nb   == IF grow
                   THEN [gen  |-> motionBuffer.gen + 1,
                         size |-> tl[t].msgs,
                         data |-> JunkSeq(tl[t].msgs)]
                   ELSE motionBuffer
     IN /\ motionBuffer' = nb
        /\ tl' = [tl EXCEPT ![t].buf = nb.gen]
  /\ pc' = [pc EXCEPT ![t] = "mm_lockmouse"]
  /\ UNCHANGED <<session, cm, agent, net, channels, lock, wire, mouse, server, hist>>

\* SPICE_LOCK(g_ps.mouse.lock)
mouseMotion_lockMouse(t) ==
  /\ pc[t] \in {"mm_lockmouse", "mm1_lockmouse"}
  /\ lock["mouse"] = Free
  /\ lock' = [lock EXCEPT !["mouse"] = t]
  /\ pc' = [pc EXCEPT ![t] = IF pc[t] = "mm_lockmouse" THEN "mm_loop" ELSE "mm1_fill"]
  /\ UNCHANGED <<session, cm, agent, net, channels, wire, tl, mouse, motionBuffer, server, hist>>

\* One iteration of while (x != 0 || y != 0): the next packet, with the
\* clamped deltas and the current button mask, is written through the
\* thread's buffer pointer and the deltas are reduced; when both are zero
\* the loop ends with SPICE_UNLOCK(g_ps.mouse.lock).  A pointer to a buffer
\* another thread has freed is a use after free: the write may land in the
\* live buffer (the allocator handed the block out again) or be lost.
mouseMotion_loop(t) ==
  /\ pc[t] = "mm_loop"
  /\ IF tl[t].rx = 0 /\ tl[t].ry = 0
       THEN /\ lock' = [lock EXCEPT !["mouse"] = Free]
            /\ pc' = [pc EXCEPT ![t] = "mm_add"]
            /\ UNCHANGED <<session, cm, agent, net, tl, motionBuffer, hist>>
       ELSE LET m == [x |-> ClampDelta(tl[t].rx), y |-> ClampDelta(tl[t].ry),
                      button_state |-> mouse.buttonState]
                pos == Len(tl[t].built) + 1
            IN /\ tl' = [tl EXCEPT ![t].rx = @ - m.x, ![t].ry = @ - m.y,
                                   ![t].built = Append(@, m)]
               /\ IF tl[t].buf = motionBuffer.gen
                    THEN /\ motionBuffer' = [motionBuffer EXCEPT !.data[pos] = m]
                         /\ hist' = hist
                    ELSE /\ \/ motionBuffer' = [motionBuffer EXCEPT !.data[pos] = m]
                            \/ motionBuffer' = motionBuffer
                         /\ hist' = [hist EXCEPT !.ub = TRUE]
               /\ UNCHANGED <<session, cm, agent, net, lock, pc>>
  /\ UNCHANGED <<session, cm, agent, net, channels, wire, mouse, server>>

\* The single-message path: the packet is built on the caller's stack.
mouseMotion_fill(t) ==
  /\ pc[t] = "mm1_fill"
  /\ tl' = [tl EXCEPT ![t].built =
              <<[x |-> tl[t].x, y |-> tl[t].y, button_state |-> mouse.buttonState]>>]
  /\ lock' = [lock EXCEPT !["mouse"] = Free]
  /\ pc' = [pc EXCEPT ![t] = "mm_add"]
  /\ UNCHANGED <<session, cm, agent, net, channels, wire, mouse, motionBuffer, server, hist>>

\* atomic_fetch_add(&g_ps.mouse.sentCount, msgs)
mouseMotion_add(t) ==
  /\ pc[t] = "mm_add"
  /\ mouse' = [mouse EXCEPT !.sentCount = @ + MotionSentDelta(tl[t].msgs)]
  /\ hist' = [hist EXCEPT !.attempted = @ + tl[t].msgs]
  /\ pc' = [pc EXCEPT ![t] = "mm_lockch"]
  /\ UNCHANGED <<session, cm, agent, net, channels, lock, wire, tl, motionBuffer, server>>

\* SPICE_LOCK(channel->lock)
mouseMotion_lockChannel(t) ==
  /\ pc[t] = "mm_lockch"
  /\ lock["INPUTS"] = Free
  /\ lock' = [lock EXCEPT !["INPUTS"] = t]
  /\ pc' = [pc EXCEPT ![t] = "mm_send"]
  /\ UNCHANGED <<session, cm, agent, net, channels, wire, tl, mouse, motionBuffer, server, hist>>

\* What send() reads: the single packet from the stack, or the first msgs
\* packets of the scratch buffer as it is now.
MotionBytes(t) ==
  IF tl[t].msgs = 1 THEN tl[t].built
  ELSE SubSeq(motionBuffer.data, 1, Min(tl[t].msgs, Len(motionBuffer.data)))

MotionChunk(t, pkts) ==
  [kind |-> "motion", id |-> tl[t].id, by |-> t, x |-> tl[t].x, y |-> tl[t].y,
   pkts |-> pkts, built |-> tl[t].built, mouseLock |-> lock["mouse"]]

\* send(channel->socket, buffer, bufferSize, 0); SPICE_UNLOCK(channel->lock);
\* return wrote == bufferSize.
mouseMotion_send(t) ==
  /\ pc[t] = "mm_send"
  /\ \/ /\ tl[t].msgs = 1 \/ tl[t].buf = motionBuffer.gen
        /\ wire' = [wire EXCEPT !["INPUTS"] = Append(@, MotionChunk(t, MotionBytes(t)))]
        /\ tl' = Returned(t, "mouseMotion", TRUE)
        /\ hist' = hist
     \/ /\ tl[t].msgs # 1 /\ tl[t].buf # motionBuffer.gen
        /\ \E pkts \in {MotionBytes(t), JunkSeq(tl[t].msgs)} :
             wire' = [wire EXCEPT !["INPUTS"] = Append(@, MotionChunk(t, pkts))]
        /\ tl' = Returned(t, "mouseMotion", TRUE)
        /\ hist' = [hist EXCEPT !.ub = TRUE]
     \/ /\ wire' = wire
        /\ tl' = Returned(t, "mouseMotion", FALSE)
        /\ hist' = hist
  /\ lock' = [lock EXCEPT !["INPUTS"] = Free]
  /\ pc' = [pc EXCEPT ![t] = "idle"]
  /\ UNCHANGED <<session, cm, agent, net, channels, mouse, motionBuffer, server>>


(***************************************************************************)
(* SpecMotion: one thread, one purespice_mouseMotion(x, y) call whose      *)
(* arguments the initial state draws from MotionDeltas.                    *)
(***************************************************************************)

InputsUp == [c \in Channels |-> [connected |-> TRUE, ready |-> TRUE]]

\* The parts of the state a specification leaves alone.
AgentIdle == [present |-> FALSE]
NetIdle == <<>>
SessionUp == [connected |-> TRUE, epollfd |-> "open"]
MainIdle == [ready |-> FALSE]

HistInit ==
  [calls |-> [t \in Threads |-> 0], attempted |-> 0, acked |-> 0,
   ub |-> FALSE, status |-> "RUN"]

InitMotion ==
  /\ channels = InputsUp
  /\ lock = [l \in Locks |-> Free]
  /\ wire = [c \in Channels |-> <<>>]
  /\ pc = [t \in Threads |-> "idle"]
  /\ \E x \in MotionDeltas, y \in MotionDeltas :
       tl = [t \in Threads |->
               IF t = "app1" THEN [fn |-> "args", ret |-> TRUE, x |-> x, y |-> y]
               ELSE IdleLocals]
  /\ mouse = [buttonState |-> {}, sentCount |-> 0]
  /\ motionBuffer = [gen |-> 0, size |-> 0, data |-> <<>>]
  /\ server = [motionAcks |-> 0, acksSent |-> 0]
  /\ hist = HistInit
  /\ agent = AgentIdle
  /\ net = NetIdle
  /\ session = SessionUp
  /\ cm = MainIdle

mouseMotion_steps(t) ==
  \/ mouseMotion_alloc(t)
  \/ mouseMotion_lockMouse(t)
  \/ mouseMotion_loop(t)
  \/ mouseMotion_fill(t)
  \/ mouseMotion_add(t)
  \/ mouseMotion_lockChannel(t)
  \/ mouseMotion_send(t)

NextMotion ==
  \/ /\ tl["app1"].fn = "args"
     /\ mouseMotion_entry("app1", tl["app1"].x, tl["app1"].y)
  \/ mouseMotion_steps("app1")

SpecMotion == InitMotion /\ [][NextMotion]_vars

\* The motion chunks a call put on the INPUTS socket.
ChunksOf(id) ==
  SelectSeq(wire["INPUTS"], LAMBDA c : c.kind = "motion" /\ c.id = id)

CeilDiv(n, d) == (n \div d) + (IF n % d = 0 THEN 0 ELSE 1)

MotionSucceeded(t) ==
  /\ pc[t] = "idle"
  /\ tl[t].fn = "mouseMotion"
  /\ tl[t].ret

\* C9: a successful mouseMotion(x, y) has put exactly
\* ceil(max(|x|,|y|)/127) motion sub-messages on the socket, in one chunk,
\* whose x components sum to x and y components to y, each within +-127.
C9_MotionSplit ==
  \A t \in AppThreads :
    MotionSucceeded(t) =>
      /\ Len(ChunksOf(tl[t].id)) = 1
      /\ LET pkts == ChunksOf(tl[t].id)[1].pkts
         IN /\ Len(pkts) = CeilDiv(Max(abs(tl[t].x), abs(tl[t].y)), 127)
            /\ SumX(pkts) = tl[t].x
            /\ SumY(pkts) = tl[t].y
            /\ \A i \in 1..Len(pkts) :
                 abs(pkts[i].x) <= 127 /\ abs(pkts[i].y) <= 127

\* C9 witness: mouseMotion(300, -5) returned true with (127,-5),(127,0),(46,0).
C9_Witness ==
  /\ MotionSucceeded("app1")
  /\ tl["app1"].x = 300 /\ tl["app1"].y = -5
  /\ Len(wire["INPUTS"]) = 1
  /\ wire["INPUTS"][1].pkts =
       << [x |-> 127, y |-> -5, button_state |-> {}],
          [x |-> 127, y |-> 0, button_state |-> {}],
          [x |-> 46, y |-> 0, button_state |-> {}] >>


(***************************************************************************)
(* SpecMouse: two application threads issue input calls on a ready INPUTS  *)
(* channel while the process thread handles the server's motion acks.      *)
(***************************************************************************)

\* purespice_mousePress / purespice_mouseRelease, entry: the ready check.
mouseButton_entry(t, fn, button) ==
  /\ pc[t] = "idle"
  /\ CallsOf(t) < MaxCalls
  /\ hist' = [hist EXCEPT !.calls[t] = @ + 1]
  /\ IF ~InputsReady
       THEN /\ tl' = [tl EXCEPT ![t] = [fn |-> fn, ret |-> FALSE,
                                        id |-> <<t, CallsOf(t) + 1>>,
                                        x |-> 0, y |-> 0]]
            /\ pc' = pc
       ELSE /\ tl' = [tl EXCEPT ![t] = [fn |-> fn, id |-> <<t, CallsOf(t) + 1>>,
                                        x |-> 0, y |-> 0, button |-> button]]
            /\ pc' = [pc EXCEPT ![t] = "mb_lockmouse"]
  /\ UNCHANGED <<session, cm, agent, net, channels, lock, wire, mouse, motionBuffer, server>>

\* SPICE_LOCK(g_ps.mouse.lock)
mouseButton_lockMouse(t) ==
  /\ pc[t] = "mb_lockmouse"
  /\ lock["mouse"] = Free
  /\ lock' = [lock EXCEPT !["mouse"] = t]
  /\ pc' = [pc EXCEPT ![t] = "mb_update"]
  /\ UNCHANGED <<session, cm, agent, net, channels, wire, tl, mouse, motionBuffer, server, hist>>

\* buttonState |= mask (press) or &= ~mask (release); the packet takes the
\* new mask; SPICE_UNLOCK(g_ps.mouse.lock).
mouseButton_update(t) ==
  /\ pc[t] = "mb_update"
  /\ LET st == IF tl[t].fn = "mousePress"
                 THEN mouse.buttonState \cup {tl[t].button}
                 ELSE mouse.buttonState \ {tl[t].button}
     IN /\ mouse' = [mouse EXCEPT !.buttonState = st]
        /\ tl' = [tl EXCEPT ![t] = [fn |-> tl[t].fn, id |-> tl[t].id,
                                    x |-> 0, y |-> 0,
                                    pkt |-> [kind |-> tl[t].fn, id |-> tl[t].id,
                                             by |-> t, button |-> tl[t].button,
                                             button_state |-> st]]]
  /\ lock' = [lock EXCEPT !["mouse"] = Free]
  /\ pc' = [pc EXCEPT ![t] = "mb_lockch"]
  /\ UNCHANGED <<session, cm, agent, net, channels, wire, motionBuffer, server, hist>>

\* SPICE_SEND_PACKET: SPICE_LOCK(channel->lock)
mouseButton_lockChannel(t) ==
  /\ pc[t] = "mb_lockch"
  /\ lock["INPUTS"] = Free
  /\ lock' = [lock EXCEPT !["INPUTS"] = t]
  /\ pc' = [pc EXCEPT ![t] = "mb_send"]
  /\ UNCHANGED <<session, cm, agent, net, channels, wire, tl, mouse, motionBuffer, server, hist>>

\* SPICE_SEND_PACKET: one send of header and payload; SPICE_UNLOCK.
mouseButton_send(t) ==
  /\ pc[t] = "mb_send"
  /\ \/ /\ wire' = [wire EXCEPT !["INPUTS"] = Append(@, tl[t].pkt)]
        /\ tl' = Returned(t, tl[t].fn, TRUE)
     \/ /\ wire' = wire
        /\ tl' = Returned(t, tl[t].fn, FALSE)
  /\ lock' = [lock EXCEPT !["INPUTS"] = Free]
  /\ pc' = [pc EXCEPT ![t] = "idle"]
  /\ UNCHANGED <<session, cm, agent, net, channels, mouse, motionBuffer, server, hist>>

mouseButton_steps(t) ==
  \/ mouseButton_lockMouse(t)
  \/ mouseButton_update(t)
  \/ mouseButton_lockChannel(t)
  \/ mouseButton_send(t)

RECURSIVE PacketCount(_)
PacketCount(w) ==
  IF w = <<>> THEN 0
  ELSE (IF Head(w).kind = "motion" THEN Len(Head(w).pkts) ELSE 0)
       + PacketCount(Tail(w))

\* The motion packets the client has put on the INPUTS socket.
EmittedMotion == PacketCount(wire["INPUTS"])

\* The server acknowledges every SPICE_INPUT_MOTION_ACK_BUNCH motion
\* packets it has received with one INPUTS_MOUSE_MOTION_ACK.
ServerMotionAck ==
  /\ server.acksSent < EmittedMotion \div SPICE_INPUT_MOTION_ACK_BUNCH
  /\ server' = [server EXCEPT !.acksSent = @ + 1, !.motionAcks = @ + 1]
  /\ UNCHANGED <<session, cm, agent, net, channels, lock, wire, pc, tl, mouse, motionBuffer, hist>>

\* onMessage_inputsMouseMotionAck, on the process thread.
onMessage_inputsMouseMotionAck ==
  /\ server.motionAcks > 0
  /\ hist.status = "RUN"
  /\ server' = [server EXCEPT !.motionAcks = @ - 1]
  /\ mouse' = [mouse EXCEPT !.sentCount = @ - SPICE_INPUT_MOTION_ACK_BUNCH]
  /\ hist' = [hist EXCEPT
                !.acked = @ + 1,
                !.status = IF mouse.sentCount < SPICE_INPUT_MOTION_ACK_BUNCH
                             THEN "ERR_READ" ELSE @]
  /\ UNCHANGED <<session, cm, agent, net, channels, lock, wire, pc, tl, motionBuffer>>

\* The calls the application threads make: the first thread moves by one
\* packet and by a full ack bunch, the second moves by two packets in the
\* opposite direction and presses a button.
MouseArgs(t) == IF t = "app1" THEN {<<1, 1>>, <<2032, 0>>} ELSE {<<-200, 0>>}
ButtonCalls(t) == IF t = "app1" THEN {} ELSE {"mousePress"}

InitMouse ==
  /\ channels = InputsUp
  /\ lock = [l \in Locks |-> Free]
  /\ wire = [c \in Channels |-> <<>>]
  /\ pc = [t \in Threads |-> "idle"]
  /\ tl = [t \in Threads |-> IdleLocals]
  /\ mouse = [buttonState |-> {}, sentCount |-> 0]
  /\ motionBuffer = [gen |-> 0, size |-> 0, data |-> <<>>]
  /\ server = [motionAcks |-> 0, acksSent |-> 0]
  /\ hist = HistInit
  /\ agent = AgentIdle
  /\ net = NetIdle
  /\ session = SessionUp
  /\ cm = MainIdle

NextMouse ==
  \/ \E t \in AppThreads :
       \/ \E a \in MouseArgs(t) : mouseMotion_entry(t, a[1], a[2])
       \/ mouseMotion_steps(t)
       \/ \E fn \in ButtonCalls(t) :
            mouseButton_entry(t, fn, "LEFT")
       \/ mouseButton_steps(t)
  \/ ServerMotionAck
  \/ onMessage_inputsMouseMotionAck

SpecMouse == InitMouse /\ [][NextMouse]_vars


MotionChunks == SelectSeq(wire["INPUTS"], LAMBDA c : c.kind = "motion")

\* C8: every mouseMotion batch on the INPUTS socket carries exactly the
\* packets (deltas and button mask) its own call computed.
C8_BatchAsBuilt ==
  \A i \in 1..Len(MotionChunks) : MotionChunks[i].pkts = MotionChunks[i].built

Quiescent ==
  /\ \A t \in Threads : pc[t] = "idle"
  /\ server.motionAcks = 0

\* C10: the outstanding-motion counter is never negative, and once the
\* client has emitted M motion packets and handled floor(M/16) acks, with
\* no call in progress, it equals M mod 16.
C10_Balance ==
  /\ mouse.sentCount >= 0
  /\ (Quiescent /\ hist.acked = EmittedMotion \div SPICE_INPUT_MOTION_ACK_BUNCH)
       => mouse.sentCount = EmittedMotion % SPICE_INPUT_MOTION_ACK_BUNCH


(***************************************************************************)
(* SpecClip: the server's agent sends CLIPBOARD messages, each split over  *)
(* AGENT_DATA carriers; the process thread hands every carrier to          *)
(* agent_process (agent.c).                                                *)
(***************************************************************************)

\* The bytes of a carrier, as agent_process sees them in channel->buffer: a
\* first carrier starts with the VDAgentMessage header, the selection
\* header when it was negotiated, and the clipboard type.
Fill(n, b) == [i \in 1..n |-> b]
CarrierBytes(c) ==
  IF c.first
    THEN Fill(VDAgentMessageSize, "H") \o Fill(c.sel, "S")
           \o Fill(ClipTypeSize, "T") \o c.data
    ELSE c.data

SelBytes == IF agent.cbSelection THEN SelectionSize ELSE 0

\* The clipboard data of the server's n-th message, T bytes long.
ClipData(n, T) == [i \in 1..T |-> 10 * n + i]

\* The agent starts a CLIPBOARD message of T data bytes; the first carrier
\* holds the headers and the first k bytes.
ServerClipboardFirst(T, k) ==
  /\ Len(net.done) < MaxClipMsgs
  /\ net.rest = <<>>
  /\ LET n == Len(net.done) + 1
         D == ClipData(n, T)
         c == [first |-> TRUE, sel |-> SelBytes,
               msgSize |-> SelBytes + ClipTypeSize + T,
               data |-> SubSeq(D, 1, k)]
     IN net' = [net EXCEPT
                  !.carriers = Append(@, c),
                  !.rest = SubSeq(D, k + 1, T),
                  !.cur = D,
                  !.done = IF k = T THEN Append(@, D) ELSE @]
  /\ UNCHANGED <<session, cm, channels, lock, wire, pc, tl, mouse, motionBuffer, server,
                 hist, agent>>

\* The agent sends the next k bytes of the message in a further carrier.
ServerClipboardNext(k) ==
  /\ net.rest # <<>>
  /\ k <= Len(net.rest)
  /\ LET c == [first |-> FALSE, sel |-> 0, msgSize |-> 0,
               data |-> SubSeq(net.rest, 1, k)]
     IN net' = [net EXCEPT
                  !.carriers = Append(@, c),
                  !.rest = SubSeq(@, k + 1, Len(@)),
                  !.done = IF k = Len(net.rest) THEN Append(@, net.cur) ELSE @]
  /\ UNCHANGED <<session, cm, channels, lock, wire, pc, tl, mouse, motionBuffer, server,
                 hist, agent>>

\* memcpy(dst + at, src, n) into a block of cap bytes: what lands inside
\* the block.
Memcpy(buf, at, src) ==
  [i \in 1..Len(buf) |->
     IF i > at /\ i <= at + Len(src) THEN src[i - at] ELSE buf[i]]

\* agent.cbBuffer: NULL, or the block malloc returned with its bytes.
NullBlock == [null |-> TRUE, bytes |-> <<>>]
Block(bytes) == [null |-> FALSE, bytes |-> bytes]

\* agent_onClipboard: the data callback gets cbBuffer and cbSize; the
\* buffer is freed and the transfer state cleared.
agent_onClipboard_mut(a, h) ==
  [agent |-> [a EXCEPT !.cbBuffer = NullBlock, !.cbRemain = 0],
   hist  |-> [h EXCEPT
                !.callbacks = Append(@, SubSeq(a.cbBuffer.bytes, 1,
                                               Min(a.cbSize,
                                                   Len(a.cbBuffer.bytes)))),
                !.ub = @ \/ a.cbSize > Len(a.cbBuffer.bytes)]]
agent_onClipboard(a, h) ==
  [agent |-> [a EXCEPT !.cbBuffer = NullBlock, !.cbSize = 0, !.cbRemain = 0],
   hist  |-> [h EXCEPT
                !.callbacks = Append(@, SubSeq(a.cbBuffer.bytes, 1,
                                               Min(a.cbSize,
                                                   Len(a.cbBuffer.bytes)))),
                !.ub = @ \/ a.cbSize > Len(a.cbBuffer.bytes)]]

\* agent_process on one carrier.  cbRemain is a uint32_t: the model keeps
\* the integer of least magnitude congruent to it modulo 2^32, so a value
\* below zero stands for a counter that has wrapped, and it is zero exactly
\* when the counter is.
agent_process ==
  /\ net.carriers # <<>>
  /\ hist.status = "RUN"
  /\ LET c    == Head(net.carriers)
         raw  == CarrierBytes(c)
         size == Len(raw)
     IN /\ net' = [net EXCEPT !.carriers = Tail(@)]
        /\ IF agent.cbRemain # 0
             THEN \* continuation of a transfer in progress
                  LET a1 == [agent EXCEPT
                               !.cbBuffer.bytes = Memcpy(@, agent.cbSize, raw),
                               !.cbRemain = @ - size,
                               !.cbSize = @ + size]
                      h1 == [hist EXCEPT
                               !.ub = @ \/ agent.cbSize + size
                                             > Len(agent.cbBuffer.bytes)]
                      r  == IF a1.cbRemain = 0 THEN agent_onClipboard(a1, h1)
                            ELSE [agent |-> a1, hist |-> h1]
                  IN \/ agent' = r.agent /\ hist' = r.hist
                     \/ /\ agent.cbSize + size > Len(agent.cbBuffer.bytes)
                        /\ agent' = agent
                        /\ hist' = [hist EXCEPT !.ub = TRUE, !.status = "CRASH"]
             ELSE IF ~c.first \/ ~agent.cbBuffer.null
               THEN \* not a VDAgentMessage header, or a new clipboard
                    \* while a buffer is still held
                    /\ agent' = agent
                    /\ hist' = [hist EXCEPT !.status = "ERROR"]
               ELSE LET dataSize  == size - VDAgentMessageSize - SelBytes
                                       - ClipTypeSize
                        totalData == c.msgSize - ClipTypeSize
                        a1 == [agent EXCEPT
                                 !.cbBuffer = Block(Memcpy(Fill(totalData, "?"),
                                                           0, c.data)),
                                 !.cbSize = dataSize,
                                 !.cbRemain = totalData - dataSize]
                        r  == IF a1.cbRemain = 0 THEN agent_onClipboard(a1, hist)
                              ELSE [agent |-> a1, hist |-> hist]
                    IN agent' = r.agent /\ hist' = r.hist
  /\ UNCHANGED <<session, cm, channels, lock, wire, pc, tl, mouse, motionBuffer, server>>

InitClip ==
  /\ channels = InputsUp
  /\ lock = [l \in Locks |-> Free]
  /\ wire = [c \in Channels |-> <<>>]
  /\ pc = [t \in Threads |-> "idle"]
  /\ tl = [t \in Threads |-> IdleLocals]
  /\ mouse = [buttonState |-> {}, sentCount |-> 0]
  /\ motionBuffer = [gen |-> 0, size |-> 0, data |-> <<>>]
  /\ server = [motionAcks |-> 0, acksSent |-> 0]
  /\ hist = [callbacks |-> <<>>, ub |-> FALSE, status |-> "RUN"]
  /\ \E sel \in BOOLEAN :
       agent = [present |-> TRUE, cbSelection |-> sel, cbBuffer |-> NullBlock,
                cbSize |-> 0, cbRemain |-> 0]
  /\ net = [carriers |-> <<>>, rest |-> <<>>, cur |-> <<>>, done |-> <<>>]
  /\ session = SessionUp
  /\ cm = MainIdle

NextClip ==
  \/ \E T \in 1..MaxClipLen : \E k \in 0..T : ServerClipboardFirst(T, k)
  \/ \E k \in 1..MaxClipLen : ServerClipboardNext(k)
  \/ agent_process

SpecClip == InitClip /\ [][NextClip]_vars

\* Every carrier the agent has sent has been processed and no message is
\* part way through.
ClipQuiet == net.carriers = <<>> /\ net.rest = <<>>

IsPrefix(s, t) == Len(s) <= Len(t) /\ s = SubSeq(t, 1, Len(s))

\* C6: the data callback is invoked once per CLIPBOARD message, after its
\* last carrier, with exactly the message's data bytes in order, whether or
\* not the selection header is negotiated.
C6_Reassembly ==
  /\ hist.status = "RUN"
  /\ IsPrefix(hist.callbacks, net.done)
  /\ ClipQuiet => hist.callbacks = net.done

\* The same, for sessions without the selection header.
ClipNoSelection == ~agent.cbSelection => C6_Reassembly


(***************************************************************************)
(* SpecAgent: application threads send agent messages (a header packet and *)
(* data chunks pushed on the agent queue, each push followed by a drain)   *)
(* while the process thread handles the server's AGENT_TOKEN grants.  The  *)
(* agent is present and the session is up throughout; a failed drain on    *)
(* the process thread ends the behaviour, as purespice_disconnect follows. *)
(***************************************************************************)

\* queue_push: the item goes to the tail.
QueuePush_mut(q, item) == <<item>> \o q
QueuePush(q, item) == Append(q, item)

\* agent_takeServerToken: if (tokens == 0) return false
TokenAvailable_mut(tokens) == TRUE
TokenAvailable(tokens) == tokens # 0

AgentUp == hist.status = "RUN" /\ agent.present

Packet(t, n, part) == [by |-> t, msg |-> n, part |-> part]

\* agent_startMsg: the VDAgentMessage header packet is pushed, then the
\* queue is drained.
agent_startMsg(t, chunks) ==
  /\ pc[t] = "idle"
  /\ AgentUp
  /\ CallsOf(t) < MaxAgentMsgs
  /\ LET n == CallsOf(t) + 1
     IN /\ agent' = [agent EXCEPT !.queue = QueuePush(@, Packet(t, n, 0))]
        /\ hist' = [hist EXCEPT !.calls[t] = n,
                                !.pushed = Append(@, Packet(t, n, 0))]
        /\ tl' = [tl EXCEPT ![t] = [fn |-> "agentMsg", msg |-> n,
                                    chunks |-> chunks, part |-> 0,
                                    phase |-> "start", tokens |-> 0,
                                    ret |-> TRUE]]
  /\ pc' = [pc EXCEPT ![t] = "pq_lock"]
  /\ UNCHANGED <<session, cm, channels, lock, wire, mouse, motionBuffer, server, net>>

\* agent_writeMsg: one queue_push per chunk of at most
\* VD_AGENT_MAX_DATA_SIZE bytes; after the last the queue is drained.
agent_writeMsg(t) ==
  /\ pc[t] = "wm_push"
  /\ AgentUp
  /\ LET part == tl[t].part + 1
         pkt  == Packet(t, tl[t].msg, part)
     IN /\ agent' = [agent EXCEPT !.queue = QueuePush(@, pkt)]
        /\ hist' = [hist EXCEPT !.pushed = Append(@, pkt)]
        /\ tl' = [tl EXCEPT ![t].part = part, ![t].phase = "write"]
        /\ pc' = [pc EXCEPT ![t] = IF part = tl[t].chunks THEN "pq_lock"
                                   ELSE "wm_push"]
  /\ UNCHANGED <<session, cm, channels, lock, wire, mouse, motionBuffer, server, net>>

\* The server grants n more tokens with MAIN_AGENT_TOKEN.
ServerAgentToken(n) ==
  /\ hist.status = "RUN"
  /\ net.grants < MaxGrants
  /\ net' = [net EXCEPT !.grants = @ + 1, !.tokens = Append(@, n)]
  /\ hist' = [hist EXCEPT !.granted = @ + n]
  /\ UNCHANGED <<session, cm, channels, lock, wire, pc, tl, mouse, motionBuffer, server,
                 agent>>

\* onMessage_mainAgentToken: agent_returnServerTokens (atomic_fetch_add),
\* then the queue is drained.
onMessage_mainAgentToken_mut ==
  /\ pc["proc"] = "idle"
  /\ AgentUp
  /\ net.tokens # <<>>
  /\ agent' = [agent EXCEPT !.serverTokens = @ + Head(net.tokens)]
  /\ net' = [net EXCEPT !.tokens = Tail(@)]
  /\ UNCHANGED <<session, cm, channels, lock, wire, pc, tl, mouse, motionBuffer,
                 server, hist>>
onMessage_mainAgentToken ==
  /\ pc["proc"] = "idle"
  /\ AgentUp
  /\ net.tokens # <<>>
  /\ agent' = [agent EXCEPT !.serverTokens = @ + Head(net.tokens)]
  /\ net' = [net EXCEPT !.tokens = Tail(@)]
  /\ tl' = [tl EXCEPT !["proc"] = [fn |-> "agentToken", phase |-> "token",
                                   tokens |-> 0, ret |-> TRUE]]
  /\ pc' = [pc EXCEPT !["proc"] = "pq_lock"]
  /\ UNCHANGED <<session, cm, channels, lock, wire, mouse, motionBuffer, server, hist>>

\* agent_processQueue: SPICE_LOCK(channel->lock)
processQueue_lock(t) ==
  /\ pc[t] = "pq_lock"
  /\ AgentUp
  /\ lock["MAIN"] = Free
  /\ lock' = [lock EXCEPT !["MAIN"] = t]
  /\ pc' = [pc EXCEPT ![t] = "pq_peek"]
  /\ UNCHANGED <<session, cm, channels, wire, tl, mouse, motionBuffer, server, hist,
                 agent, net>>

\* The end of agent_processQueue: SPICE_UNLOCK and the caller's next step.
\* agent_startMsg goes on to agent_writeMsg's pushes when the drain
\* succeeded; the process thread disconnects the session when it failed.
ProcessQueueReturn(t, ok) ==
  /\ lock' = [lock EXCEPT !["MAIN"] = Free]
  /\ IF ok /\ tl[t].phase = "start"
       THEN /\ pc' = [pc EXCEPT ![t] = "wm_push"]
            /\ tl' = tl
       ELSE /\ pc' = [pc EXCEPT ![t] = "idle"]
            /\ tl' = [tl EXCEPT ![t] = [fn |-> "none", ret |-> ok]]

\* while (queue_peek(agent.queue, NULL) ...
processQueue_peek(t) ==
  /\ pc[t] = "pq_peek"
  /\ AgentUp
  /\ IF agent.queue = <<>>
       THEN ProcessQueueReturn(t, TRUE)
       ELSE /\ pc' = [pc EXCEPT ![t] = "pq_load"]
            /\ UNCHANGED <<session, cm, lock, tl>>
  /\ UNCHANGED <<session, cm, channels, wire, mouse, motionBuffer, server, hist, agent, net>>

\* agent_takeServerToken: the connected check and atomic_load.
takeServerToken_load(t) ==
  /\ pc[t] = "pq_load"
  /\ AgentUp
  /\ IF ~channels["MAIN"].connected \/ ~TokenAvailable(agent.serverTokens)
       THEN ProcessQueueReturn(t, TRUE)
       ELSE /\ tl' = [tl EXCEPT ![t].tokens = agent.serverTokens]
            /\ pc' = [pc EXCEPT ![t] = "pq_cas"]
            /\ lock' = lock
  /\ UNCHANGED <<session, cm, channels, wire, mouse, motionBuffer, server, hist, agent, net>>

\* atomic_compare_exchange_weak(&agent.serverTokens, &tokens, tokens - 1):
\* it takes the token when the counter still has the value loaded; it fails,
\* and the loop loads again, when the counter has changed, or spuriously.
takeServerToken_cas(t) ==
  /\ pc[t] = "pq_cas"
  /\ AgentUp
  /\ \/ /\ agent.serverTokens = tl[t].tokens
        /\ agent' = [agent EXCEPT !.serverTokens = @ - 1]
        /\ hist' = [hist EXCEPT !.taken = @ + 1]
        /\ pc' = [pc EXCEPT ![t] = "pq_send"]
     \/ /\ UNCHANGED <<session, cm, agent, hist>>
        /\ pc' = [pc EXCEPT ![t] = "pq_load"]
  /\ UNCHANGED <<session, cm, channels, lock, wire, tl, mouse, motionBuffer, server, net>>

\* queue_shift and SPICE_SEND_PACKET_NL: the head packet is sent, or the
\* send fails and the packet is freed, the lock released, false returned.
processQueue_send(t) ==
  /\ pc[t] = "pq_send"
  /\ AgentUp
  /\ agent' = [agent EXCEPT !.queue = Tail(@)]
  /\ \/ /\ wire' = [wire EXCEPT !["MAIN"] =
                      Append(@, [kind |-> "agent", id |-> Head(agent.queue),
                                 by |-> t])]
        /\ pc' = [pc EXCEPT ![t] = "pq_peek"]
        /\ UNCHANGED <<session, cm, lock, tl, hist>>
     \/ /\ wire' = wire
        /\ ProcessQueueReturn(t, FALSE)
        /\ hist' = [hist EXCEPT
                      !.dropped = @ \cup {Head(agent.queue)},
                      !.status = IF t = "proc" THEN "ERR" ELSE @]
  /\ UNCHANGED <<session, cm, channels, mouse, motionBuffer, server, net>>

processQueue_steps(t) ==
  \/ processQueue_lock(t)
  \/ processQueue_peek(t)
  \/ takeServerToken_load(t)
  \/ takeServerToken_cas(t)
  \/ processQueue_send(t)

\* The data chunks of the messages the threads send: the first thread's
\* data is longer than VD_AGENT_MAX_DATA_SIZE and takes several chunks.
AgentChunks(t) == IF t = "app1" THEN MaxChunks ELSE 1

\* The session after MAIN_INIT (agent_setServerTokens with the tokens it
\* carried) and agent_connect.
InitAgent ==
  /\ channels = InputsUp
  /\ lock = [l \in Locks |-> Free]
  /\ wire = [c \in Channels |-> <<>>]
  /\ pc = [t \in Threads |-> "idle"]
  /\ tl = [t \in Threads |-> IdleLocals]
  /\ mouse = [buttonState |-> {}, sentCount |-> 0]
  /\ motionBuffer = [gen |-> 0, size |-> 0, data |-> <<>>]
  /\ server = [motionAcks |-> 0, acksSent |-> 0]
  /\ net = [tokens |-> <<>>, grants |-> 0]
  /\ session = SessionUp
  /\ cm = MainIdle
  /\ \E n \in 0..MaxTokens :
       /\ agent = [present |-> TRUE, queue |-> <<>>, serverTokens |-> n]
       /\ hist = [calls |-> [t \in Threads |-> 0], pushed |-> <<>>,
                  dropped |-> {}, granted |-> n, taken |-> 0,
                  status |-> "RUN"]

NextAgent ==
  \/ \E t \in AppThreads : agent_startMsg(t, AgentChunks(t))
  \/ \E t \in AppThreads : agent_writeMsg(t)
  \/ \E t \in Threads : processQueue_steps(t)
  \/ \E n \in 1..2 : ServerAgentToken(n)
  \/ onMessage_mainAgentToken

SpecAgent == InitAgent /\ [][NextAgent]_vars

\* The agent packets on the MAIN socket, in the order sent.
AgentEmitted ==
  [i \in 1..Len(wire["MAIN"]) |-> wire["MAIN"][i].id]

RECURSIVE Sum(_)
Sum(q) == IF q = <<>> THEN 0 ELSE Head(q) + Sum(Tail(q))

\* Threads that have taken a token and not yet sent the packet.
InHand == Cardinality({t \in Threads : pc[t] = "pq_send"})

\* C4: the token counter never goes below zero, every token taken was
\* granted (in MAIN_INIT or in an AGENT_TOKEN message, read or still to be
\* read), and each carrier emitted (or lost to a failed send, or about to
\* be sent) has taken one token: the carriers emitted never exceed the
\* tokens granted.
C4_TokenBeforeCarrier ==
  /\ agent.serverTokens >= 0
  /\ agent.serverTokens + hist.taken + Sum(net.tokens) = hist.granted
  /\ Len(AgentEmitted) + Cardinality(hist.dropped) + InHand = hist.taken
  /\ Len(AgentEmitted) <= hist.granted

\* C4 witness: two threads have drained the queue, the tokens are used up
\* and carriers are still queued.
C4_Witness ==
  /\ agent.serverTokens = 0
  /\ agent.queue # <<>>
  /\ Len(AgentEmitted) = hist.granted
  /\ Cardinality({wire["MAIN"][i].by : i \in 1..Len(wire["MAIN"])}) >= 2

\* C5: the carriers taken from the queue are the first ones pushed, the
\* queue holds the rest in push order, and the carriers on the MAIN socket
\* are the taken ones, less those whose send failed, in push order.
C5_Fifo ==
  LET taken == Len(hist.pushed) - Len(agent.queue)
  IN /\ taken >= 0
     /\ agent.queue = SubSeq(hist.pushed, taken + 1, Len(hist.pushed))
     /\ AgentEmitted =
          SelectSeq(SubSeq(hist.pushed, 1, taken),
                    LAMBDA p : p \notin hist.dropped)

\* C5 witness: carriers pushed by both application threads have been sent,
\* some by the process thread after a token grant, none lost.
C5_Witness ==
  /\ Len(AgentEmitted) >= 3
  /\ hist.dropped = {}
  /\ \E i, j \in 1..Len(wire["MAIN"]) :
       /\ wire["MAIN"][i].id.by # wire["MAIN"][j].id.by
       /\ wire["MAIN"][i].by = "proc"
       /\ wire["MAIN"][j].by # "proc"


(***************************************************************************)
(* SpecSend: the RECORD channel.  One application thread connects the      *)
(* channel (purespice_connectChannel, the link handshake of                *)
(* channel_connect), another writes audio (purespice_writeAudio), and the  *)
(* process thread answers the server's pings once the channel is ready.    *)
(***************************************************************************)

SendChunk(t, kind) == [kind |-> kind, id |-> <<t, CallsOf(t)>>, by |-> t]

\* purespice_connectChannel -> channel_connect: the socket is connected and
\* channel->connected is set before the handshake.
connectChannel_entry(t) ==
  /\ pc[t] = "idle"
  /\ hist.status = "RUN"
  /\ CallsOf(t) < 1
  /\ ~channels["RECORD"].connected
  /\ channels' = [channels EXCEPT !["RECORD"].connected = TRUE]
  /\ lock' = [lock EXCEPT !["RECORD"] = Free]
  /\ hist' = [hist EXCEPT !.calls[t] = @ + 1]
  /\ tl' = [tl EXCEPT ![t] = [fn |-> "connectChannel", ret |-> TRUE]]
  /\ pc' = [pc EXCEPT ![t] = "cc_link"]
  /\ UNCHANGED <<session, cm, wire, mouse, motionBuffer, server, agent, net>>

\* The handshake writes of channel_connect, each a channel_writeNL without
\* the channel lock: the connect packet, the auth mechanism, the password.
\* A failed write ends in channel_internal_disconnect and, through
\* ps_connectChannel, in purespice_disconnect.
connectChannel_write(t) ==
  /\ pc[t] \in {"cc_link", "cc_auth", "cc_pass"}
  /\ hist.status = "RUN"
  /\ \/ /\ wire' = [wire EXCEPT !["RECORD"] = Append(@, SendChunk(t, pc[t]))]
        /\ pc' = [pc EXCEPT ![t] = CASE pc[t] = "cc_link" -> "cc_auth"
                                     [] pc[t] = "cc_auth" -> "cc_pass"
                                     [] OTHER -> "cc_result"]
        /\ UNCHANGED <<session, cm, channels, tl, hist>>
     \/ /\ wire' = wire
        /\ channels' = [channels EXCEPT !["RECORD"].connected = FALSE]
        /\ pc' = [pc EXCEPT ![t] = "idle"]
        /\ tl' = [tl EXCEPT ![t].ret = FALSE]
        /\ hist' = [hist EXCEPT !.status = "ERR"]
  /\ UNCHANGED <<session, cm, lock, mouse, motionBuffer, server, agent, net>>

\* The link result is read, the socket joins the pollset, ready is set.
connectChannel_ready(t) ==
  /\ pc[t] = "cc_result"
  /\ hist.status = "RUN"
  /\ channels' = [channels EXCEPT !["RECORD"].ready = TRUE]
  /\ pc' = [pc EXCEPT ![t] = "idle"]
  /\ UNCHANGED <<session, cm, lock, wire, tl, mouse, motionBuffer, server, hist, agent, net>>

\* purespice_writeAudio: if (!channel->connected) return false
writeAudio_entry(t) ==
  /\ pc[t] = "idle"
  /\ hist.status = "RUN"
  /\ CallsOf(t) < MaxCalls
  /\ hist' = [hist EXCEPT !.calls[t] = @ + 1]
  /\ IF channels["RECORD"].connected
       THEN /\ pc' = [pc EXCEPT ![t] = "wa_lock"]
            /\ tl' = [tl EXCEPT ![t] = [fn |-> "writeAudio", ret |-> TRUE]]
       ELSE /\ pc' = pc
            /\ tl' = [tl EXCEPT ![t] = [fn |-> "writeAudio", ret |-> FALSE]]
  /\ UNCHANGED <<session, cm, channels, lock, wire, mouse, motionBuffer, server, agent, net>>

\* SPICE_LOCK(channel->lock)
writeAudio_lock(t) ==
  /\ pc[t] = "wa_lock"
  /\ hist.status = "RUN"
  /\ lock["RECORD"] = Free
  /\ lock' = [lock EXCEPT !["RECORD"] = t]
  /\ pc' = [pc EXCEPT ![t] = "wa_header"]
  /\ UNCHANGED <<session, cm, channels, wire, tl, mouse, motionBuffer, server, hist,
                 agent, net>>

\* SPICE_SEND_PACKET_NL(channel, msg): the SpiceMsgcRecordPacket header.
writeAudio_header(t) ==
  /\ pc[t] = "wa_header"
  /\ hist.status = "RUN"
  /\ \/ /\ wire' = [wire EXCEPT !["RECORD"] = Append(@, SendChunk(t, "audio_header"))]
        /\ pc' = [pc EXCEPT ![t] = "wa_data"]
        /\ UNCHANGED <<session, cm, lock, tl>>
     \/ /\ wire' = wire
        /\ lock' = [lock EXCEPT !["RECORD"] = Free]
        /\ pc' = [pc EXCEPT ![t] = "idle"]
        /\ tl' = [tl EXCEPT ![t].ret = FALSE]
  /\ UNCHANGED <<session, cm, channels, mouse, motionBuffer, server, hist, agent, net>>

\* send(channel->socket, data, size, 0); SPICE_UNLOCK(channel->lock)
writeAudio_data(t) ==
  /\ pc[t] = "wa_data"
  /\ hist.status = "RUN"
  /\ \/ /\ wire' = [wire EXCEPT !["RECORD"] = Append(@, SendChunk(t, "audio_data"))]
        /\ UNCHANGED <<session, cm, tl, hist>>
     \/ /\ wire' = wire
        /\ tl' = [tl EXCEPT ![t].ret = FALSE]
        /\ hist' = [hist EXCEPT !.failed = @ \cup {<<t, CallsOf(t)>>}]
  /\ lock' = [lock EXCEPT !["RECORD"] = Free]
  /\ pc' = [pc EXCEPT ![t] = "idle"]
  /\ UNCHANGED <<session, cm, channels, mouse, motionBuffer, server, agent, net>>

\* The process thread answers a ping on the ready channel (onMessage_ping):
\* SPICE_SEND_PACKET, first SPICE_LOCK(channel->lock) ...
onMessage_ping_lock ==
  /\ pc["proc"] = "idle"
  /\ hist.status = "RUN"
  /\ channels["RECORD"].ready
  /\ CallsOf("proc") < MaxCalls
  /\ lock["RECORD"] = Free
  /\ lock' = [lock EXCEPT !["RECORD"] = "proc"]
  /\ hist' = [hist EXCEPT !.calls["proc"] = @ + 1]
  /\ pc' = [pc EXCEPT !["proc"] = "pong_send"]
  /\ UNCHANGED <<session, cm, channels, wire, tl, mouse, motionBuffer, server, agent, net>>

\* ... then the send of the whole SpiceMsgcPong and SPICE_UNLOCK.
onMessage_ping_send ==
  /\ pc["proc"] = "pong_send"
  /\ hist.status = "RUN"
  /\ \/ /\ wire' = [wire EXCEPT !["RECORD"] = Append(@, SendChunk("proc", "pong"))]
        /\ hist' = hist
     \/ /\ wire' = wire
        /\ hist' = [hist EXCEPT !.status = "ERR"]
  /\ lock' = [lock EXCEPT !["RECORD"] = Free]
  /\ pc' = [pc EXCEPT !["proc"] = "idle"]
  /\ UNCHANGED <<session, cm, channels, tl, mouse, motionBuffer, server, agent, net>>

\* A session with MAIN and INPUTS up; PLAYBACK and RECORD available and
\* not yet connected.
InitSend ==
  /\ channels = [c \in Channels |->
                   [connected |-> c \in {"MAIN", "INPUTS"},
                    ready |-> c \in {"MAIN", "INPUTS"}]]
  /\ lock = [l \in Locks |-> Free]
  /\ wire = [c \in Channels |-> <<>>]
  /\ pc = [t \in Threads |-> "idle"]
  /\ tl = [t \in Threads |-> IdleLocals]
  /\ mouse = [buttonState |-> {}, sentCount |-> 0]
  /\ motionBuffer = [gen |-> 0, size |-> 0, data |-> <<>>]
  /\ server = [motionAcks |-> 0, acksSent |-> 0]
  /\ hist = [calls |-> [t \in Threads |-> 0], failed |-> {}, status |-> "RUN"]
  /\ agent = AgentIdle
  /\ net = NetIdle
  /\ session = SessionUp
  /\ cm = MainIdle

NextSend ==
  \/ connectChannel_entry("app1")
  \/ connectChannel_write("app1")
  \/ connectChannel_ready("app1")
  \/ \E t \in AppThreads :
       \/ writeAudio_entry(t)
       \/ writeAudio_lock(t)
       \/ writeAudio_header(t)
       \/ writeAudio_data(t)
  \/ onMessage_ping_lock
  \/ onMessage_ping_send

SpecSend == InitSend /\ [][NextSend]_vars

\* C7: on the socket, the header chunk of a writeAudio call is directly
\* followed by that call's audio bytes: nothing another packet of the
\* channel wrote lies between them (unless the call's own data send failed).
C7_Contiguous ==
  LET w == wire["RECORD"]
  IN \A i \in 1..Len(w) :
       (w[i].kind = "audio_header" /\ i < Len(w) /\ w[i].id \notin hist.failed)
         => (w[i + 1].kind = "audio_data" /\ w[i + 1].id = w[i].id)

\* Once the channel is ready every sender holds the channel lock, and the
\* calls started from then on are contiguous.
SendReadyContiguous ==
  LET w == wire["RECORD"]
  IN \A i \in 1..Len(w) :
       (w[i].kind = "audio_header" /\ i < Len(w) /\ w[i].id \notin hist.failed
          /\ \E j \in 1..(i - 1) : w[j].kind = "cc_pass")
         => (w[i + 1].kind = "audio_data" /\ w[i + 1].id = w[i].id)

(***************************************************************************)
(* The receive path (ps.c: purespice_process; channel.c).                  *)
(*                                                                         *)
(* A socket is a stream of bytes: net[c] holds the messages the server has *)
(* written on channel c's current connection, how many of their bytes have *)
(* reached the client (delivered) and how many the client has read (read). *)
(* Byte values are not modelled, positions are: a header read at a         *)
(* position that is the start of message k is that message's header.       *)
(***************************************************************************)
FrameChannels == {"PLAYBACK", "INPUTS"}

\* What the server chooses: the payload size of a PLAYBACK_MODE and of a
\* PLAYBACK_DATA message (four bytes of time and two more), and the window
\* of a SET_ACK.  The other messages have their struct's size.
ModeSizes == {6}
DataSizes == {6}
AckWindows == {1, 2}

NoHeader == [type |-> "NONE", size |-> 0]

FrameChannel ==
  [available |-> TRUE, enable |-> TRUE, autoConnect |-> TRUE,
   connected |-> TRUE, ready |-> TRUE, initDone |-> FALSE,
   doDisconnect |-> FALSE, headerRead |-> 0, bufferRead |-> 0,
   header |-> NoHeader, handlerFn |-> "NULL", discarding |-> FALSE,
   discardSize |-> 0, ackFrequency |-> 0, ackCount |-> 0]

Stream == [msgs |-> <<>>, delivered |-> 0, read |-> 0, cur |-> 0]

AckHist == [generation |-> 0, window |-> 0, headers |-> 0]

Msg(type, size, generation, window) ==
  [type |-> type, size |-> size, generation |-> generation, window |-> window]

MsgLen(m) == HeaderSize + m.size

RECURSIVE StreamLen(_)
StreamLen(ms) ==
  IF ms = <<>> THEN 0 ELSE MsgLen(Head(ms)) + StreamLen(Tail(ms))

\* The stream position of the first byte of message k.
StartOf(ms, k) == StreamLen(SubSeq(ms, 1, k - 1))

\* The message that starts at stream position p, 0 if none does.
MsgAt(ms, p) ==
  IF \E k \in 1..Len(ms) : StartOf(ms, k) = p
  THEN CHOOSE k \in 1..Len(ms) : StartOf(ms, k) = p
  ELSE 0

\* The positions at which a delivery can end: inside and after a header,
\* inside and after a payload.
CutPoints(ms) ==
  UNION {{StartOf(ms, k) + (HeaderSize \div 2),
          StartOf(ms, k) + HeaderSize,
          StartOf(ms, k) + HeaderSize + (ms[k].size \div 2),
          StartOf(ms, k) + MsgLen(ms[k])} : k \in 1..Len(ms)}

Chunk(kind, arg) == [kind |-> kind, arg |-> arg]

CommonTypes ==
  {"MIGRATE", "MIGRATE_DATA", "SET_ACK", "PING", "WAIT_FOR_CHANNELS",
   "DISCONNECTING", "NOTIFY"}

channel_onMessage(type) ==
  CASE type \in {"MIGRATE", "MIGRATE_DATA", "WAIT_FOR_CHANNELS"} -> "DISCARD"
    [] type = "SET_ACK" -> "onMessage_setAck"
    [] type = "PING" -> "onMessage_ping"
    [] type = "DISCONNECTING" -> "onMessage_disconnecting"
    [] type = "NOTIFY" -> "onMessage_notify"
    [] OTHER -> "ERROR"

\* No volume or mute callback is registered.
channelPlayback_onMessage(type) ==
  CASE type = "PLAYBACK_START" -> "onMessage_playbackStart"
    [] type = "PLAYBACK_MODE" -> "DISCARD"
    [] type = "PLAYBACK_DATA" -> "onMessage_playbackData"
    [] type = "PLAYBACK_STOP" -> "onMessage_playbackStop"
    [] type \in {"PLAYBACK_VOLUME", "PLAYBACK_MUTE"} -> "DISCARD"
    [] OTHER -> "ERROR"

\* "ERROR_DISCONNECT" is PS_HANDLER_ERROR returned after purespice_disconnect.
channelInputs_onMessage(initDone, type) ==
  IF ~initDone
  THEN IF type = "INPUTS_INIT" THEN "onMessage_inputsInit"
       ELSE "ERROR_DISCONNECT"
  ELSE CASE type = "INPUTS_INIT" -> "ERROR_DISCONNECT"
         [] type = "INPUTS_KEY_MODIFIERS" -> "onMessage_inputsKeyModifiers"
         [] type = "INPUTS_MOUSE_MOTION_ACK" -> "onMessage_inputsMouseMotionAck"
         [] OTHER -> "DISCARD"

\* The handler purespice_process picks for a complete header.
Dispatch(c, ch, type) ==
  IF type \in CommonTypes THEN channel_onMessage(type)
  ELSE IF c = "PLAYBACK" THEN channelPlayback_onMessage(type)
  ELSE channelInputs_onMessage(ch.initDone, type)

\* channel_ack: count the header, and at ackFrequency headers send the ack.
channel_ack(ch) ==
  IF ch.ackFrequency = 0 THEN [ch |-> ch, out |-> <<>>]
  ELSE IF ch.ackCount + 1 # ch.ackFrequency
  THEN [ch |-> [ch EXCEPT !.ackCount = @ + 1], out |-> <<>>]
  ELSE [ch |-> [ch EXCEPT !.ackCount = 0], out |-> <<Chunk("ACK", 0)>>]

onMessage_setAck(ch, m) ==
  [ch |-> [ch EXCEPT !.ackFrequency = m.window],
   out |-> <<Chunk("ACK_SYNC", m.generation)>>]

onMessage_inputsInit(ch) == [ch |-> [ch EXCEPT !.initDone = TRUE], out |-> <<>>]

\* channel->handlerFn(channel) on the payload of message m.
RunHandler(ch, m) ==
  CASE ch.handlerFn = "onMessage_setAck" -> onMessage_setAck(ch, m)
    [] ch.handlerFn = "onMessage_ping" -> [ch |-> ch, out |-> <<Chunk("PONG", 0)>>]
    [] ch.handlerFn = "onMessage_inputsInit" -> onMessage_inputsInit(ch)
    [] OTHER -> [ch |-> ch, out |-> <<>>]

channel_internal_disconnect_mut(ch) == [ch |-> ch, out |-> <<>>]
channel_internal_disconnect(ch) ==
  IF ~ch.connected THEN [ch |-> ch, out |-> <<>>]
  ELSE [ch |-> [ch EXCEPT !.ready = FALSE, !.bufferRead = 0, !.headerRead = 0,
                          !.connected = FALSE, !.doDisconnect = FALSE],
        out |-> IF ch.ready THEN <<Chunk("DISCONNECTING", 0)>> ELSE <<>>]

\* purespice_process once the header is complete and acked: fn is the
\* handler the dispatch returned for it.
SetHandler(c, R, fn) ==
  [R EXCEPT
     !.ch = [R.ch EXCEPT
               !.bufferRead = 0,
               !.handlerFn = IF fn = "ERROR_DISCONNECT" THEN "ERROR" ELSE fn,
               !.initDone = IF c = "PLAYBACK" /\ R.ch.header.type \notin CommonTypes
                            THEN TRUE ELSE @,
               !.discarding = IF fn = "DISCARD" THEN TRUE ELSE @,
               !.discardSize = IF fn = "DISCARD" THEN R.ch.header.size ELSE @],
     !.res = CASE fn = "ERROR" -> "ERR_READ"
               [] fn = "ERROR_DISCONNECT" -> "ERR_READ_DISCONNECT"
               [] OTHER -> "go"]

\* purespice_process, the header part of one visit of a channel: read what
\* is missing of the header; once it is complete, ack it and pick the
\* handler.  R carries the channel, its stream and what the visit has done.
\* Six bytes that are not a message's header have no type or size the model
\* knows: the visit ends in "MISFRAMED" and the session is followed no
\* further.
ReadHeader(c, R) ==
  LET len == Min(HeaderSize - R.ch.headerRead, R.avail)
      rd == R.nt.read + len
      hr == R.ch.headerRead + len
      k == MsgAt(R.nt.msgs, rd - HeaderSize)
  IN IF hr < HeaderSize
     THEN [R EXCEPT !.ch.headerRead = hr, !.nt.read = rd, !.res = "continue"]
     ELSE IF k = 0
     THEN [R EXCEPT !.ch.headerRead = hr, !.nt.read = rd, !.res = "MISFRAMED"]
     ELSE
       LET m == R.nt.msgs[k]
           A == channel_ack([R.ch EXCEPT !.headerRead = hr,
                               !.header = [type |-> m.type, size |-> m.size]])
       IN SetHandler(c, [R EXCEPT !.ch = A.ch,
                                  !.nt = [R.nt EXCEPT !.read = rd, !.cur = k],
                                  !.avail = R.avail - len,
                                  !.out = A.out,
                                  !.ack = [R.ack EXCEPT !.headers = @ + 1]],
                     Dispatch(c, R.ch, m.type))

\* purespice_process, the payload part of one visit: discard, or read into
\* the buffer and call the handler when the payload is complete.
ReadPayload(R) ==
  IF R.ch.discarding
  THEN LET len == Min(R.ch.discardSize, R.avail)
           left == R.ch.discardSize - len
       IN [R EXCEPT !.ch.discardSize = left,
                    !.ch.discarding = left # 0,
                    !.ch.headerRead = IF left = 0 THEN 0 ELSE @,
                    !.nt.read = @ + len,
                    !.avail = @ - len,
                    !.res = IF R.avail - len = 0 THEN "done" ELSE "more"]
  ELSE LET size == R.ch.header.size - R.ch.bufferRead
           len == Min(size, R.avail)
           full == R.ch.bufferRead + len = R.ch.header.size
           H == RunHandler(R.ch, R.nt.msgs[R.nt.cur])
       IN IF size # 0 /\ len = 0
          THEN [R EXCEPT !.res = "disconnect"]
          ELSE IF ~full
          THEN [R EXCEPT !.ch.bufferRead = @ + len,
                         !.nt.read = @ + len,
                         !.avail = @ - len,
                         !.res = IF R.avail - len = 0 THEN "done" ELSE "more"]
          ELSE [R EXCEPT
                  !.ch = [H.ch EXCEPT !.bufferRead = @ + len, !.headerRead = 0],
                  !.nt.read = @ + len,
                  !.avail = @ - len,
                  !.out = @ \o H.out,
                  !.log = Append(@, R.nt.cur),
                  !.ack = IF R.ch.handlerFn = "onMessage_setAck"
                          THEN [generation |-> R.nt.msgs[R.nt.cur].generation,
                                window |-> R.nt.msgs[R.nt.cur].window,
                                headers |-> 0]
                          ELSE @,
                  !.res = IF R.avail - len = 0 THEN "done" ELSE "more"]

\* A complete, valid header is followed by the payload in the same pass.
AfterHeader(R) == IF R.res # "go" THEN R ELSE ReadPayload(R)

\* One pass of the body of purespice_process's inner loop for channel c.
Visit(c) ==
  LET R0 == [ch |-> channels[c], nt |-> net[c],
             avail |-> net[c].delivered - net[c].read,
             out |-> <<>>, log |-> <<>>, ack |-> hist.ack[c], res |-> "go"]
  IN IF R0.avail = 0 THEN [R0 EXCEPT !.res = "disconnect"]
     ELSE IF R0.ch.headerRead < HeaderSize
     THEN AfterHeader(ReadHeader(c, R0))
     ELSE ReadPayload(R0)

\* The session is followed until purespice_process returns an error status.
FrameUp == hist.status = "RUN"

Perms(S) ==
  {s \in [1..Cardinality(S) -> S] :
     \A i, j \in 1..Cardinality(S) : i # j => s[i] # s[j]}

\* The next entry of events the loops of purespice_process stop at.
NextEvent(ev, i) ==
  LET live == {j \in 1..Len(ev) : ev[j] # "NULL"}
      later == {j \in live : j > i}
      S == IF later # {} THEN later ELSE live
  IN CHOOSE j \in S : \A l \in S : j <= l

\* purespice_process up to epoll_wait: the pending disconnects, then the
\* channels the poller reports, in the order it reports them.
process_entry ==
  /\ pc["proc"] = "idle"
  /\ FrameUp
  /\ session.epollfd = "open"
  /\ LET pend == {c \in Channels :
                    channels[c].initDone /\ channels[c].doDisconnect}
         chs == [c \in Channels |->
                   IF c \in pend THEN channel_internal_disconnect(channels[c]).ch
                   ELSE channels[c]]
         readable == {c \in FrameChannels :
                        /\ chs[c].connected /\ chs[c].ready
                        /\ net[c].delivered > net[c].read}
     IN /\ pend # {} \/ readable # {}
        /\ channels' = chs
        /\ wire' = [c \in Channels |->
                      IF c \in pend
                      THEN wire[c] \o channel_internal_disconnect(channels[c]).out
                      ELSE wire[c]]
        /\ IF readable = {}
           THEN UNCHANGED <<session, cm, pc, tl>>
           ELSE /\ pc' = [pc EXCEPT !["proc"] = "loop"]
                /\ \E ev \in Perms(readable) :
                     tl' = [tl EXCEPT !["proc"] =
                              [fn |-> "process", ret |-> TRUE, events |-> ev,
                               i |-> 1, done |-> 0]]
  /\ UNCHANGED <<session, cm, lock, mouse, motionBuffer, server, hist, agent, net>>

\* One pass of the inner loop for events[i], and the return of
\* purespice_process when that pass ends the call.
process_visit ==
  /\ pc["proc"] = "loop"
  /\ \E V \in {Visit(tl["proc"].events[tl["proc"].i])} :
     LET L == tl["proc"]
         c == L.events[L.i]
         D == channel_internal_disconnect(V.ch)
         disc == V.res = "disconnect"
         all == V.res = "ERR_READ_DISCONNECT"
         err == V.res \in {"ERR_READ", "ERR_READ_DISCONNECT", "MISFRAMED"}
         fin == V.res \in {"done", "disconnect"}
         chs1 == [channels EXCEPT ![c] = IF disc THEN D.ch ELSE V.ch]
         w1 == [wire EXCEPT ![c] = @ \o V.out \o (IF disc THEN D.out ELSE <<>>)]
         chs2 == IF all
                 THEN [k \in Channels |-> channel_internal_disconnect(chs1[k]).ch]
                 ELSE chs1
         w2 == IF all
               THEN [k \in Channels |->
                       w1[k] \o channel_internal_disconnect(chs1[k]).out]
               ELSE w1
         ev == IF fin THEN [L.events EXCEPT ![L.i] = "NULL"] ELSE L.events
         done == L.done + (IF fin THEN 1 ELSE 0)
         return == err \/ done = Len(ev)
         status == CASE err -> IF V.res = "MISFRAMED" THEN "MISFRAMED" ELSE "ERR_READ"
                     [] ~err /\ return /\ \A k \in Channels : ~chs2[k].connected
                          -> "SHUTDOWN"
                     [] OTHER -> hist.status
     IN /\ channels' = chs2
        /\ wire' = w2
        /\ session' = IF all
                       THEN [session EXCEPT !.connected = FALSE,
                                            !.epollfd = "closed"]
                       ELSE session
        /\ net' = [net EXCEPT ![c] = V.nt]
        /\ hist' = [hist EXCEPT !.log[c] = @ \o V.log, !.ack[c] = V.ack,
                                !.status = status]
        /\ IF return
           THEN /\ pc' = [pc EXCEPT !["proc"] = "idle"]
                /\ tl' = [tl EXCEPT !["proc"] = [fn |-> "none", ret |-> ~err]]
           ELSE /\ pc' = pc
                /\ tl' = [tl EXCEPT !["proc"] =
                            [L EXCEPT !.events = ev, !.done = done,
                                      !.i = NextEvent(ev, L.i)]]
  /\ UNCHANGED <<cm, lock, mouse, motionBuffer, server, agent>>

\* purespice_disconnectChannel on an available channel: channel_disconnect
\* marks the channel.
disconnectChannel(c) ==
  /\ FrameUp
  /\ channels[c].available
  /\ channels[c].connected
  /\ ~channels[c].doDisconnect
  /\ hist.reconnects < MaxReconnect
  /\ channels' = [channels EXCEPT ![c].doDisconnect = TRUE]
  /\ UNCHANGED <<session, cm, lock, wire, pc, tl, mouse, motionBuffer, server, hist, agent,
                 net>>

\* ps_connectChannel against a server that completes the handshake:
\* channel_connect resets four fields of the channel and opens a new socket.
ps_connectChannel(c) ==
  /\ hist.reconnects < MaxReconnect
  /\ channels' = [channels EXCEPT ![c] =
                    [@ EXCEPT !.doDisconnect = FALSE, !.initDone = FALSE,
                              !.ackFrequency = 0, !.ackCount = 0,
                              !.connected = TRUE, !.ready = TRUE]]
  /\ lock' = [l \in Locks |->
                IF l = c \/ (l = "mouse" /\ c = "INPUTS") THEN Free ELSE lock[l]]
  /\ wire' = [wire EXCEPT ![c] = <<>>]
  /\ net' = [net EXCEPT ![c] = Stream]
  /\ hist' = [hist EXCEPT !.reconnects = @ + 1, !.log[c] = <<>>,
                          !.ack[c] = AckHist]
  /\ UNCHANGED <<session, cm, mouse, motionBuffer, server, agent>>

\* purespice_connectChannel on an available channel that is not connected.
connectChannel(c) ==
  /\ FrameUp
  /\ channels[c].available
  /\ ~channels[c].connected
  /\ ps_connectChannel(c)
  /\ UNCHANGED <<session, cm, pc, tl>>

\* The messages the server may write next on channel c: any of the playback
\* messages; on INPUTS the init message, then key modifiers.
ServerMenu(c, ms) ==
  IF c = "PLAYBACK"
  THEN {Msg("SET_ACK", SetAckSize,
            1 + Cardinality({k \in 1..Len(ms) : ms[k].type = "SET_ACK"}), w) :
          w \in AckWindows}
       \cup {Msg("PLAYBACK_MODE", n, 0, 0) : n \in ModeSizes}
       \cup {Msg("PLAYBACK_DATA", n, 0, 0) : n \in DataSizes}
       \cup {Msg("PLAYBACK_STOP", 0, 0, 0)}
  ELSE IF ms = <<>> THEN {Msg("INPUTS_INIT", InputsInitSize, 0, 0)}
  ELSE {Msg("INPUTS_KEY_MODIFIERS", InputsInitSize, 0, 0)}

\* The server writes a message once the bytes of the previous one have
\* left: what it has queued but not delivered is invisible to the client.
ServerSend(c) ==
  /\ FrameUp
  /\ channels[c].connected /\ channels[c].ready
  /\ hist.sent < MaxSrvMsgs
  /\ net[c].delivered = StreamLen(net[c].msgs)
  /\ \E m \in ServerMenu(c, net[c].msgs) :
       net' = [net EXCEPT ![c].msgs = Append(@, m)]
  /\ hist' = [hist EXCEPT !.sent = @ + 1]
  /\ UNCHANGED <<session, cm, channels, lock, wire, pc, tl, mouse, motionBuffer, server,
                 agent>>

\* Bytes of the stream reach the client's socket, up to the next cut point.
ServerDeliver(c) ==
  /\ FrameUp
  /\ net[c].delivered < StreamLen(net[c].msgs)
  /\ LET next == {p \in CutPoints(net[c].msgs) : p > net[c].delivered}
     IN net' = [net EXCEPT ![c].delivered =
                  CHOOSE p \in next : \A q \in next : p <= q]
  /\ UNCHANGED <<session, cm, channels, lock, wire, pc, tl, mouse, motionBuffer, server,
                 hist, agent>>

InitFrame ==
  /\ channels = [c \in Channels |-> FrameChannel]
  /\ lock = [l \in Locks |-> Free]
  /\ wire = [c \in Channels |-> <<>>]
  /\ pc = [t \in Threads |-> "idle"]
  /\ tl = [t \in Threads |-> IdleLocals]
  /\ mouse = [buttonState |-> {}, sentCount |-> 0]
  /\ motionBuffer = [gen |-> 0, size |-> 0, data |-> <<>>]
  /\ server = [motionAcks |-> 0, acksSent |-> 0]
  /\ hist = [status |-> "RUN", sent |-> 0, reconnects |-> 0,
             log |-> [c \in FrameChannels |-> <<>>],
             ack |-> [c \in FrameChannels |-> AckHist]]
  /\ agent = AgentIdle
  /\ net = [c \in FrameChannels |-> Stream]
  /\ session = SessionUp
  /\ cm = MainIdle

NextFrame ==
  \/ process_entry
  \/ process_visit
  \/ disconnectChannel("PLAYBACK")
  \/ connectChannel("PLAYBACK")
  \/ \E c \in FrameChannels :
       \/ ServerSend(c)
       \/ ServerDeliver(c)

SpecFrame == InitFrame /\ [][NextFrame]_vars

\* The message types that have a handler function on channel c.
HasHandler(c, type) ==
  IF type \in CommonTypes THEN channel_onMessage(type) \notin {"DISCARD", "ERROR"}
  ELSE IF c = "PLAYBACK"
  THEN channelPlayback_onMessage(type) \notin {"DISCARD", "ERROR"}
  ELSE channelInputs_onMessage(type # "INPUTS_INIT", type)
         \notin {"DISCARD", "ERROR_DISCONNECT"}

\* C1: on each channel the handlers run in the order of the messages on the
\* connection's stream: the handled positions increase strictly (none
\* twice, none before an earlier one) and no message that has a handler is
\* passed over by a later handled message.
C1_InOrder ==
  \A c \in FrameChannels :
    LET L == hist.log[c]
        ms == net[c].msgs
    IN /\ \A i, j \in 1..Len(L) : i < j => L[i] < L[j]
       /\ \A n \in 1..Len(L) : \A k \in 1..(L[n] - 1) :
            HasHandler(c, ms[k].type) => \E j \in 1..Len(L) : L[j] = k

\* C2: whenever a connected channel is back at header-reading, what it has
\* read from the socket is a whole number of messages - 6 header bytes and
\* header.size payload bytes each - and no header was ever assembled from
\* bytes that are not a message's header.
C2_Framing ==
  /\ hist.status # "MISFRAMED"
  /\ \A c \in FrameChannels :
       (channels[c].connected /\ channels[c].headerRead = 0)
         => \E k \in 0..Len(net[c].msgs) :
              net[c].read = StreamLen(SubSeq(net[c].msgs, 1, k))

\* C3: the last ACK_SYNC on the channel's socket carries the generation of
\* the last SET_ACK handled, there is one ACK_SYNC per SET_ACK handled, and
\* the one-byte acks written since are one per window headers read since;
\* before any SET_ACK nothing is acknowledged.
C3_AckCadence ==
  \A c \in FrameChannels :
    LET a == hist.ack[c]
        w == wire[c]
        L == hist.log[c]
        syncs == {i \in 1..Len(w) : w[i].kind = "ACK_SYNC"}
        last == IF syncs = {} THEN 0
                ELSE CHOOSE i \in syncs : \A j \in syncs : j <= i
        acks == Cardinality({i \in 1..Len(w) : i > last /\ w[i].kind = "ACK"})
        handled == {n \in 1..Len(L) : net[c].msgs[L[n]].type = "SET_ACK"}
    IN /\ Cardinality(syncs) = Cardinality(handled)
       /\ a.generation = 0 => acks = 0
       /\ a.generation > 0 =>
            /\ w[last].arg = a.generation
            /\ acks = IF a.window > 0 THEN a.headers \div a.window ELSE 0

\* On a connection that is the channel's first, the handlers run in order
\* and the framing is kept: the two properties fail only on a connection
\* opened after a teardown.
FirstConnectionInOrder == hist.reconnects = 0 => C1_InOrder
FirstConnectionFraming == hist.reconnects = 0 => C2_Framing

(***************************************************************************)
(* SpecAck: one thread moves the mouse while the server acknowledges, and  *)
(* the server may also send an ack that the packets it has received do not *)
(* justify.                                                                *)
(***************************************************************************)
MaxSpurious == 1

\* An INPUTS_MOUSE_MOTION_ACK for a bunch the server has not received.
ServerUnjustifiedAck ==
  /\ hist.status = "RUN"
  /\ server.acksSent >= EmittedMotion \div SPICE_INPUT_MOTION_ACK_BUNCH
  /\ server.acksSent
       < EmittedMotion \div SPICE_INPUT_MOTION_ACK_BUNCH + MaxSpurious
  /\ server' = [server EXCEPT !.acksSent = @ + 1, !.motionAcks = @ + 1]
  /\ UNCHANGED <<session, cm, agent, net, channels, lock, wire, pc, tl, mouse, motionBuffer,
                 hist>>

NextAck ==
  \/ \E a \in MouseArgs("app1") : mouseMotion_entry("app1", a[1], a[2])
  \/ mouseMotion_steps("app1")
  \/ ServerMotionAck
  \/ ServerUnjustifiedAck
  \/ onMessage_inputsMouseMotionAck

SpecAck == InitMouse /\ [][NextAck]_vars

\* C11: handling a motion ack raises the error exactly when the motion
\* packets the client has put on the socket do not cover the bunches
\* acknowledged so far, this one included.
C11_AckError ==
  [][hist.acked' # hist.acked =>
       ((hist.status' # "RUN")
          <=> (SPICE_INPUT_MOTION_ACK_BUNCH * hist.acked' > EmittedMotion))]_vars

\* An ack that 16 packets on the socket justify never raises the error.
JustifiedAckNoError ==
  [][(hist.acked' # hist.acked
        /\ SPICE_INPUT_MOTION_ACK_BUNCH * hist.acked' <= EmittedMotion)
       => hist.status' = "RUN"]_vars

\* C12: purespice_writeAudio puts bytes on the RECORD socket only while the
\* channel is connected and ready, and a call made while it is not ready
\* returns false at once, having sent nothing.
C12_OnlyWhenReady ==
  [][/\ (Len(wire'["RECORD"]) > Len(wire["RECORD"])
           /\ wire'["RECORD"][Len(wire'["RECORD"])].kind
                \in {"audio_header", "audio_data"})
          => (channels["RECORD"].connected /\ channels["RECORD"].ready)
     /\ \A t \in AppThreads :
          (/\ hist'.calls[t] # hist.calls[t]
           /\ tl'[t].fn = "writeAudio"
           /\ ~(channels["RECORD"].connected /\ channels["RECORD"].ready))
            => (pc'[t] = "idle" /\ tl'[t].ret = FALSE)]_vars

\* C13: disconnectChannel only marks the channel - it stays connected and
\* nothing is written - and the next call of process that gets past its
\* pending-disconnect check has torn down every channel that was marked.
C13_TeardownInProcess ==
  [][/\ \A k \in FrameChannels :
          (channels[k].connected /\ ~channels[k].doDisconnect
             /\ channels'[k].doDisconnect)
            => (channels'[k].connected /\ wire' = wire)
     /\ (pc["proc"] = "idle" /\ pc'["proc"] = "loop")
          => \A k \in FrameChannels :
               (channels[k].connected /\ channels[k].doDisconnect)
                 => ~channels'[k].connected]_vars

\* A marked channel on which a message of its own kind has been dispatched
\* (initDone) is torn down by the next call of process.
InitDoneTeardown ==
  [][(pc["proc"] = "idle" /\ pc'["proc"] = "loop")
       => \A k \in FrameChannels :
            (channels[k].connected /\ channels[k].doDisconnect
               /\ channels[k].initDone)
              => ~channels'[k].connected]_vars

(***************************************************************************)
(* SpecConnect: the application disconnects and connects the PLAYBACK      *)
(* channel and looks at what purespice_connectChannel returns, while the   *)
(* server may send a channels list that withdraws or restores the channel. *)
(* PLAYBACK is not an autoconnect channel here.                            *)
(***************************************************************************)

\* onMessage_mainChannelsList on a list that advertises the channels in adv:
\* availability is reset and then set for the advertised channels; an
\* advertised channel that is enabled and autoconnect is connected, unless
\* it is connected already, which ends the session.  Yields what is to be
\* done: "ok", the channel to connect, or "error".
ChannelsListAvailable(chs, adv) ==
  [c \in Channels |-> [chs[c] EXCEPT !.available = c \in adv]]

ChannelsListConnect(chs, adv) ==
  {c \in adv : chs[c].enable /\ chs[c].autoConnect}

\* The first branch purespice_connectChannel takes.
ConnectResult_mut(ch) ==
  IF ch.connected THEN "true" ELSE "connect"
ConnectResult(ch) ==
  IF ~ch.available THEN "false"
  ELSE IF ch.connected THEN "true"
  ELSE "connect"

\* purespice_connectChannel, with the value it returns.
purespice_connectChannel(t, c) ==
  /\ FrameUp
  /\ tl[t].fn = "none"
  /\ LET r == ConnectResult(channels[c])
     IN /\ tl' = [tl EXCEPT ![t] = [fn |-> "connectChannel", ret |-> r # "false"]]
        /\ IF r = "connect"
           THEN ps_connectChannel(c)
           ELSE UNCHANGED <<session, cm, channels, lock, wire, net, hist, mouse,
                            motionBuffer, server, agent>>
  /\ pc' = pc

\* The application has looked at the returned value.
api_return(t) ==
  /\ tl[t].fn = "connectChannel"
  /\ tl' = [tl EXCEPT ![t] = IdleLocals]
  /\ UNCHANGED <<session, cm, channels, lock, wire, pc, mouse, motionBuffer, server, hist,
                 agent, net>>

\* A process call in which the main channel alone had a message, a channels
\* list that advertises no autoconnect channel.
process_mainChannelsList(adv) ==
  /\ FrameUp
  /\ pc["proc"] = "idle"
  /\ ChannelsListConnect(channels, adv) = {}
  /\ channels' = ChannelsListAvailable(channels, adv)
  /\ channels' # channels
  /\ UNCHANGED <<session, cm, lock, wire, pc, tl, mouse, motionBuffer, server, hist, agent,
                 net>>

InitConnect ==
  /\ channels = [c \in Channels |->
                   [FrameChannel EXCEPT !.autoConnect = c # "PLAYBACK"]]
  /\ lock = [l \in Locks |-> Free]
  /\ wire = [c \in Channels |-> <<>>]
  /\ pc = [t \in Threads |-> "idle"]
  /\ tl = [t \in Threads |-> IdleLocals]
  /\ mouse = [buttonState |-> {}, sentCount |-> 0]
  /\ motionBuffer = [gen |-> 0, size |-> 0, data |-> <<>>]
  /\ server = [motionAcks |-> 0, acksSent |-> 0]
  /\ hist = [status |-> "RUN", sent |-> MaxSrvMsgs - 1, reconnects |-> 0,
             log |-> [c \in FrameChannels |-> <<>>],
             ack |-> [c \in FrameChannels |-> AckHist]]
  /\ agent = AgentIdle
  /\ net = [c \in FrameChannels |-> Stream]
  /\ session = SessionUp
  /\ cm = MainIdle

NextConnect ==
  \/ process_entry
  \/ process_visit
  \/ \E adv \in {{}, {"PLAYBACK"}} : process_mainChannelsList(adv)
  \/ disconnectChannel("PLAYBACK")
  \/ purespice_connectChannel("app1", "PLAYBACK")
  \/ api_return("app1")
  \/ \E c \in FrameChannels :
       \/ ServerSend(c)
       \/ ServerDeliver(c)

SpecConnect == InitConnect /\ [][NextConnect]_vars

\* C14: purespice_connectChannel on a channel that has been torn down
\* returns true exactly if the channel is available (hasChannel), and when
\* it returns true the channel is connected.
C14_ConnectIffAvailable ==
  [][(tl["app1"].fn = "none" /\ tl'["app1"].fn = "connectChannel"
        /\ ~channels["PLAYBACK"].connected)
       => /\ tl'["app1"].ret = channels["PLAYBACK"].available
          /\ tl'["app1"].ret => channels'["PLAYBACK"].connected]_vars

C14_Witness ==
  /\ tl["app1"].fn = "connectChannel"
  /\ tl["app1"].ret
  /\ hist.reconnects = 1
  /\ channels["PLAYBACK"].connected

C14_WitnessRefused ==
  /\ tl["app1"].fn = "connectChannel"
  /\ ~tl["app1"].ret
  /\ ~channels["PLAYBACK"].connected

\* ---------------------------------------------------------------------
\* SpecShutdown: the caller of purespice_process calls purespice_disconnect
\* between two calls and goes on calling purespice_process.
\* ---------------------------------------------------------------------

\* purespice_disconnect, called by the thread that runs purespice_process:
\* the session flag is cleared, every channel is torn down, the epoll
\* descriptor is closed, the motion buffer is freed, the agent is reset.
purespice_disconnect ==
  /\ pc["proc"] = "idle"
  /\ session.connected
  /\ session' = [session EXCEPT !.connected = FALSE, !.epollfd = "closed"]
  /\ channels' = [c \in Channels |-> channel_internal_disconnect(channels[c]).ch]
  /\ wire' = [c \in Channels |->
                wire[c] \o channel_internal_disconnect(channels[c]).out]
  /\ motionBuffer' = [motionBuffer EXCEPT !.data = <<>>]
  /\ agent' = AgentIdle
  /\ UNCHANGED <<cm, lock, pc, tl, mouse, server, hist, net>>

\* The status purespice_process returns when epoll_wait fails with an
\* error other than EINTR.
PollError_mut(s) == IF s.connected THEN "SHUTDOWN" ELSE "ERR_POLL"
PollError(s) == IF ~s.connected THEN "SHUTDOWN" ELSE "ERR_POLL"

\* purespice_process on a closed epoll descriptor: the pending disconnects,
\* then epoll_wait fails (EBADF) and the call returns.
process_epollError ==
  /\ pc["proc"] = "idle"
  /\ session.epollfd = "closed"
  /\ LET pend == {c \in Channels :
                    channels[c].initDone /\ channels[c].doDisconnect}
     IN /\ channels' = [c \in Channels |->
                          IF c \in pend
                          THEN channel_internal_disconnect(channels[c]).ch
                          ELSE channels[c]]
        /\ wire' = [c \in Channels |->
                      IF c \in pend
                      THEN wire[c] \o channel_internal_disconnect(channels[c]).out
                      ELSE wire[c]]
  /\ hist' = [hist EXCEPT !.status = PollError(session),
                          !.after = PollError(session)]
  /\ UNCHANGED <<session, cm, lock, pc, tl, mouse, motionBuffer, server, agent,
                 net>>

InitShutdown ==
  /\ channels = [c \in Channels |-> FrameChannel]
  /\ lock = [l \in Locks |-> Free]
  /\ wire = [c \in Channels |-> <<>>]
  /\ pc = [t \in Threads |-> "idle"]
  /\ tl = [t \in Threads |-> IdleLocals]
  /\ mouse = [buttonState |-> {}, sentCount |-> 0]
  /\ motionBuffer = [gen |-> 0, size |-> 0, data |-> <<>>]
  /\ server = [motionAcks |-> 0, acksSent |-> 0]
  /\ hist = [status |-> "RUN", sent |-> 1, reconnects |-> 0, after |-> "none",
             log |-> [c \in FrameChannels |-> <<>>],
             ack |-> [c \in FrameChannels |-> AckHist]]
  /\ agent = AgentIdle
  /\ net = [c \in FrameChannels |-> Stream]
  /\ session = SessionUp
  /\ cm = MainIdle

NextShutdown ==
  \/ process_entry
  \/ process_visit
  \/ disconnectChannel("PLAYBACK")
  \/ \E c \in FrameChannels :
       \/ ServerSend(c)
       \/ ServerDeliver(c)
  \/ purespice_disconnect
  \/ process_epollError

SpecShutdown == InitShutdown /\ [][NextShutdown]_vars

\* The caller goes on calling purespice_process after purespice_disconnect.
SpecShutdownFair == SpecShutdown /\ WF_vars(process_epollError)

\* C15: once the caller has called purespice_disconnect, no call of
\* purespice_process returns an error status, and the calls do not return
\* RUN for ever: one of them returns SHUTDOWN.
C15_DisconnectShutdown ==
  /\ [](hist.after \in {"none", "SHUTDOWN"})
  /\ (~session.connected) ~> (hist.after = "SHUTDOWN")

\* purespice_disconnect was called while PLAYBACK was in the middle of a
\* message, and the next purespice_process returned SHUTDOWN.
C15_Witness ==
  /\ ~session.connected
  /\ hist.after = "SHUTDOWN"
  /\ \E c \in FrameChannels : net[c].read > 0 /\ net[c].read < net[c].delivered

\* ---------------------------------------------------------------------
\* SpecMain: the main channel's NAME, UUID and CHANNELS_LIST messages, each
\* handled by one purespice_process call, after purespice_connect.
\* ---------------------------------------------------------------------

MainChannelsLists ==
  {<<>>, <<"PLAYBACK">>, <<"INPUTS">>, <<"PLAYBACK", "INPUTS">>,
   <<"INPUTS", "PLAYBACK">>}

\* channelMain_getConnectPacket zeroes cm; channelMain_setCaps then sets both
\* capabilities whatever the server's link reply advertises (caps).
channelMain_setCaps(caps) ==
  [ready |-> FALSE, capAgentTokens |-> TRUE, capNameAndUUID |-> TRUE,
   hasName |-> FALSE, hasUUID |-> FALSE, hasList |-> FALSE]

\* checkReady on the main channel's state m: the state it leaves and whether
\* it called g_ps.config.ready.
checkReady(m) ==
  IF m.ready THEN [cm |-> m, called |-> FALSE]
  ELSE IF m.capNameAndUUID /\ (~m.hasName \/ ~m.hasUUID)
       THEN [cm |-> m, called |-> FALSE]
  ELSE IF ~m.hasList THEN [cm |-> m, called |-> FALSE]
  ELSE [cm |-> [m EXCEPT !.ready = TRUE], called |-> TRUE]

\* channel_connect against a server that completes the handshake.
channel_connect(ch) ==
  [ch EXCEPT !.doDisconnect = FALSE, !.initDone = FALSE, !.ackFrequency = 0,
             !.ackCount = 0, !.connected = TRUE, !.ready = TRUE]

\* The loop of onMessage_mainChannelsList over msg->channels from entry i:
\* the channel table it leaves, whether it ended in the protocol error, and
\* the channels ps_connectChannel was run for.
RECURSIVE mainChannelsList_loop(_, _, _)
mainChannelsList_loop(chs, adv, i) ==
  IF i > Len(adv) THEN [chs |-> chs, err |-> FALSE, runs |-> {}]
  ELSE LET c == adv[i]
           marked == [chs EXCEPT ![c].available = TRUE]
       IN IF ~chs[c].enable \/ ~chs[c].autoConnect
          THEN mainChannelsList_loop(marked, adv, i + 1)
          ELSE IF chs[c].connected
          THEN [chs |-> marked, err |-> TRUE, runs |-> {}]
          ELSE LET R == mainChannelsList_loop(
                          [marked EXCEPT ![c] = channel_connect(@)], adv, i + 1)
               IN [R EXCEPT !.runs = @ \cup {c}]

\* A process call in which the main channel had a NAME or a UUID message:
\* onMessage_mainName / onMessage_mainUUID.
onMessage_mainName ==
  /\ FrameUp
  /\ pc["proc"] = "idle"
  /\ hist.sent < MaxSrvMsgs
  /\ "NAME" \notin hist.received
  /\ \E R \in {checkReady([cm EXCEPT !.hasName = TRUE])} :
       /\ cm' = R.cm
       /\ hist' = [hist EXCEPT !.sent = @ + 1,
                               !.received = @ \cup {"NAME"},
                               !.readyCalls = @ + (IF R.called THEN 1 ELSE 0)]
  /\ UNCHANGED <<session, channels, lock, wire, pc, tl, mouse, motionBuffer,
                 server, agent, net>>

onMessage_mainUUID ==
  /\ FrameUp
  /\ pc["proc"] = "idle"
  /\ hist.sent < MaxSrvMsgs
  /\ "UUID" \notin hist.received
  /\ \E R \in {checkReady([cm EXCEPT !.hasUUID = TRUE])} :
       /\ cm' = R.cm
       /\ hist' = [hist EXCEPT !.sent = @ + 1,
                               !.received = @ \cup {"UUID"},
                               !.readyCalls = @ + (IF R.called THEN 1 ELSE 0)]
  /\ UNCHANGED <<session, channels, lock, wire, pc, tl, mouse, motionBuffer,
                 server, agent, net>>

\* A process call in which the main channel had a CHANNELS_LIST message that
\* advertises adv: onMessage_mainChannelsList, and on its error return
\* purespice_disconnect and the ERR_READ the call returns.
onMessage_mainChannelsList(adv) ==
  /\ FrameUp
  /\ pc["proc"] = "idle"
  /\ hist.sent < MaxSrvMsgs
  /\ \E W \in {mainChannelsList_loop(
                 [c \in Channels |-> [channels[c] EXCEPT !.available = FALSE]],
                 adv, 1)} :
     \E R \in {checkReady([cm EXCEPT !.hasList = TRUE])} :
       /\ channels' = IF W.err
                      THEN [c \in Channels |->
                              channel_internal_disconnect(W.chs[c]).ch]
                      ELSE W.chs
       /\ wire' = [c \in Channels |->
                     IF W.err
                     THEN (IF c \in W.runs THEN <<>> ELSE wire[c])
                            \o channel_internal_disconnect(W.chs[c]).out
                     ELSE IF c \in W.runs THEN <<>> ELSE wire[c]]
       /\ lock' = [l \in Locks |-> IF l \in W.runs THEN Free ELSE lock[l]]
       /\ session' = IF W.err
                     THEN [session EXCEPT !.connected = FALSE,
                                          !.epollfd = "closed"]
                     ELSE session
       /\ agent' = IF W.err THEN AgentIdle ELSE agent
       /\ cm' = IF W.err THEN cm ELSE R.cm
       /\ hist' = [hist EXCEPT
                     !.sent = @ + 1,
                     !.received = @ \cup {"LIST"},
                     !.lists = Append(@, [adv |-> adv, runs |-> W.runs]),
                     !.status = IF W.err THEN "ERR_READ" ELSE @,
                     !.readyCalls =
                       @ + (IF ~W.err /\ R.called THEN 1 ELSE 0)]
  /\ UNCHANGED <<pc, tl, mouse, motionBuffer, server, net>>

\* After purespice_connect: the main channel alone is connected, no channel
\* is known to be available, and the application's configuration enables
\* the playback channel or not, with autoconnect or not.
InitMain ==
  /\ \E en \in BOOLEAN, au \in BOOLEAN :
       channels = [c \in Channels |->
                     [FrameChannel EXCEPT
                        !.available = FALSE,
                        !.connected = c = "MAIN",
                        !.ready = c = "MAIN",
                        !.enable = IF c = "PLAYBACK" THEN en ELSE c # "RECORD",
                        !.autoConnect = IF c = "PLAYBACK" THEN au ELSE TRUE]]
  /\ lock = [l \in Locks |-> Free]
  /\ wire = [c \in Channels |-> <<>>]
  /\ pc = [t \in Threads |-> "idle"]
  /\ tl = [t \in Threads |-> IdleLocals]
  /\ mouse = [buttonState |-> {}, sentCount |-> 0]
  /\ motionBuffer = [gen |-> 0, size |-> 0, data |-> <<>>]
  /\ \E cap \in BOOLEAN :
       /\ server = [motionAcks |-> 0, acksSent |-> 0, capNameAndUUID |-> cap]
       /\ cm = channelMain_setCaps(cap)
  /\ hist = [status |-> "RUN", sent |-> 0, readyCalls |-> 0, received |-> {},
             lists |-> <<>>]
  /\ agent = AgentIdle
  /\ net = NetIdle
  /\ session = SessionUp

NextMain ==
  \/ onMessage_mainName
  \/ onMessage_mainUUID
  \/ \E adv \in MainChannelsLists : onMessage_mainChannelsList(adv)

SpecMain == InitMain /\ [][NextMain]_vars

\* The moment the ready callback is due: the channels list has been received
\* and, if the server advertises the name/UUID capability, NAME and UUID too.
ReadyDue ==
  /\ "LIST" \in hist.received
  /\ server.capNameAndUUID => {"NAME", "UUID"} \subseteq hist.received

\* C16: while the session runs, the application's ready callback has been
\* invoked exactly once if the channels list has been received and (when
\* the server advertises the name/UUID capability) NAME and UUID as well,
\* and not at all before that.
C16_ReadyOnce ==
  hist.status = "RUN" => hist.readyCalls = (IF ReadyDue THEN 1 ELSE 0)

\* With a server that advertises the capability the callback is invoked once,
\* when it is due.
ReadyOnceAdvertised ==
  (hist.status = "RUN" /\ server.capNameAndUUID)
    => hist.readyCalls = (IF ReadyDue THEN 1 ELSE 0)

\* The callback is never invoked twice, whatever the server advertises.
ReadyAtMostOnce == hist.readyCalls <= 1

\* The channels a CHANNELS_LIST message advertises.
Advertised(adv) == {adv[i] : i \in 1..Len(adv)}

\* The advertised channels the claim has connect_channel run for.
ToConnect(chs, adv) ==
  {c \in Advertised(adv) :
     chs[c].enable /\ chs[c].autoConnect /\ ~chs[c].connected}

\* C17: the process call that handles a CHANNELS_LIST message marks every
\* advertised channel available, runs ps_connectChannel for exactly the
\* advertised channels that are enabled, autoconnect and not yet connected,
\* and leaves the session running.
C17_ChannelsList ==
  [][Len(hist'.lists) > Len(hist.lists)
       => /\ \A c \in Advertised(hist'.lists[Len(hist'.lists)].adv) :
               channels'[c].available
          /\ hist'.lists[Len(hist'.lists)].runs
               = ToConnect(channels, hist'.lists[Len(hist'.lists)].adv)
          /\ hist'.status = "RUN"]_vars

\* The same holds of every list that advertises no channel which is enabled,
\* autoconnect and already connected.
ChannelsListNotConnected ==
  [][(/\ Len(hist'.lists) > Len(hist.lists)
      /\ \A c \in Advertised(hist'.lists[Len(hist'.lists)].adv) :
           ~(channels[c].enable /\ channels[c].autoConnect
               /\ channels[c].connected))
       => /\ \A c \in Advertised(hist'.lists[Len(hist'.lists)].adv) :
               channels'[c].available
          /\ hist'.lists[Len(hist'.lists)].runs
               = ToConnect(channels, hist'.lists[Len(hist'.lists)].adv)
          /\ hist'.status = "RUN"]_vars

\* ---------------------------------------------------------------------
\* SpecRound: the loop of purespice_process at the granularity of whole
\* messages, with a server that may write again at any time.  net[c] is the
\* number of complete messages waiting on channel c's socket.
\* ---------------------------------------------------------------------

\* The number of messages a socket's receive buffer holds.
RoundCap == 2

\* The server writes one more message on channel c.
ServerWrite(c) ==
  /\ channels[c].connected
  /\ net[c] < RoundCap
  /\ net' = [net EXCEPT ![c] = @ + 1]
  /\ UNCHANGED <<session, cm, channels, lock, wire, pc, tl, mouse,
                 motionBuffer, server, hist, agent>>

\* purespice_process up to the loop: epoll_wait returns the channels that
\* have data, in some order.
round_entry ==
  /\ pc["proc"] = "idle"
  /\ LET readable == {c \in FrameChannels :
                        channels[c].connected /\ net[c] > 0}
     IN /\ readable # {}
        /\ \E ev \in Perms(readable) :
             tl' = [tl EXCEPT !["proc"] =
                      [fn |-> "process", ret |-> TRUE, events |-> ev,
                       i |-> 1, done |-> 0]]
  /\ pc' = [pc EXCEPT !["proc"] = "loop"]
  /\ UNCHANGED <<session, cm, channels, lock, wire, mouse, motionBuffer,
                 server, hist, agent, net>>

\* One pass of the inner loop for events[i]: one message is read and handled;
\* the channel leaves the rotation when that took the last byte waiting, and
\* purespice_process returns once every channel has left it.
round_visit ==
  /\ pc["proc"] = "loop"
  /\ LET L == tl["proc"]
         c == L.events[L.i]
         nodata == net[c] = 0
         left == IF nodata THEN 0 ELSE net[c] - 1
         fin == left = 0
         ev == IF fin THEN [L.events EXCEPT ![L.i] = "NULL"] ELSE L.events
         done == L.done + (IF fin THEN 1 ELSE 0)
     IN /\ net' = [net EXCEPT ![c] = left]
        /\ channels' = IF nodata
                       THEN [channels EXCEPT
                               ![c] = channel_internal_disconnect(@).ch]
                       ELSE channels
        /\ hist' = IF nodata THEN hist
                   ELSE [hist EXCEPT !.handled[c] = 1 - @]
        /\ IF done = Len(ev)
           THEN /\ pc' = [pc EXCEPT !["proc"] = "idle"]
                /\ tl' = [tl EXCEPT !["proc"] = IdleLocals]
           ELSE /\ pc' = pc
                /\ tl' = [tl EXCEPT !["proc"] =
                            [L EXCEPT !.events = ev, !.done = done,
                                      !.i = NextEvent(ev, L.i)]]
  /\ UNCHANGED <<session, cm, lock, wire, mouse, motionBuffer, server, agent>>

InitRound ==
  /\ channels = [c \in Channels |-> FrameChannel]
  /\ lock = [l \in Locks |-> Free]
  /\ wire = [c \in Channels |-> <<>>]
  /\ pc = [t \in Threads |-> "idle"]
  /\ tl = [t \in Threads |-> IdleLocals]
  /\ mouse = [buttonState |-> {}, sentCount |-> 0]
  /\ motionBuffer = [gen |-> 0, size |-> 0, data |-> <<>>]
  /\ server = [motionAcks |-> 0, acksSent |-> 0]
  /\ hist = [status |-> "RUN", handled |-> [c \in FrameChannels |-> 0]]
  /\ agent = AgentIdle
  /\ net = [c \in FrameChannels |-> 0]
  /\ session = SessionUp
  /\ cm = MainIdle

NextRound ==
  \/ round_entry
  \/ round_visit
  \/ \E c \in FrameChannels : ServerWrite(c)

SpecRound == InitRound /\ [][NextRound]_vars

\* The application calls purespice_process again and again, and a call that
\* is in its loop goes on.
SpecRoundFair == SpecRound /\ WF_vars(round_entry) /\ WF_vars(round_visit)

\* C18: a message waiting on a channel is eventually handled, whatever the
\* other channels receive, and a call of purespice_process that has entered
\* its loop eventually returns to the poller.
C18_NoStarvation ==
  /\ \A c \in FrameChannels : \A v \in {0, 1} :
       (net[c] > 0 /\ hist.handled[c] = v) ~> (hist.handled[c] # v)
  /\ (pc["proc"] = "loop") ~> (pc["proc"] = "idle")

\* One pass of the inner loop hands at most one message to a handler.
VisitOneMessage ==
  [][\A c \in FrameChannels :
       Len(hist'.log[c]) <= Len(hist.log[c]) + 1]_vars

\* ---------------------------------------------------------------------
\* SpecConfig: purespice_connect on a configuration the application chose.
\* ---------------------------------------------------------------------

Groups == {"clipboard", "playback", "record", "display"}

\* The callbacks purespice_connect requires of an enabled group.
Mandatory ==
  [g \in Groups |->
     CASE g = "clipboard" -> {"notice", "data", "release", "request"}
       [] g = "playback" -> {"start", "stop", "data"}
       [] g = "record" -> {"start", "stop"}
       [] g = "display" -> {"surfaceCreate", "surfaceDestroy", "drawBitmap",
                            "drawFill"}]

\* A group's callbacks: all of them, or all but one.
CallbackSets(g) == {Mandatory[g]} \cup {Mandatory[g] \ {x} : x \in Mandatory[g]}

\* A dotted IPv4 literal, and a host name, which inet_pton does not accept.
Hosts == {"192.0.2.1", "spice.example"}
ValidIPv4 == {"192.0.2.1"}
Ports == {0, 5900}

Configs ==
  [enable : [Groups -> BOOLEAN],
   callbacks : {[g \in Groups |->
                   CASE g = "clipboard" -> c
                     [] g = "playback" -> p
                     [] g = "record" -> r
                     [] g = "display" -> d] :
                  c \in CallbackSets("clipboard"),
                  p \in CallbackSets("playback"),
                  r \in CallbackSets("record"),
                  d \in CallbackSets("display")},
   host : Hosts, port : Ports]

\* The checks of purespice_connect on the callbacks: an enabled group lacks
\* one of its mandatory callbacks.
CallbackMissing(cfg) ==
  \E g \in Groups : cfg.enable[g] /\ ~(Mandatory[g] \subseteq cfg.callbacks[g])

\* inet_pton(AF_INET, host, &g_ps.addr.in.sin_addr) on the zeroed g_ps.addr:
\* the address is stored for a valid literal and left as it was otherwise;
\* the value inet_pton returns is not looked at.
inet_pton(host) == IF host \in ValidIPv4 THEN host ELSE "0.0.0.0"

\* The address purespice_connect leaves in g_ps.family / g_ps.addr.
ConnectAddr(cfg) ==
  IF cfg.port = 0
  THEN [family |-> "AF_UNIX", addr |-> cfg.host, port |-> 0]
  ELSE [family |-> "AF_INET", addr |-> inet_pton(cfg.host), port |-> cfg.port]

\* purespice_connect(cfg) for a configuration cfg of the application's
\* choice, with a peer at the address that accepts the main channel's
\* connection and handshake (ok) or not.
purespice_connect(t) ==
  /\ tl[t].fn = "none"
  /\ ~session.connected
  /\ hist.sockets = <<>>
  /\ \E cfg \in Configs, ok \in BOOLEAN :
       IF CallbackMissing(cfg)
       THEN /\ tl' = [tl EXCEPT ![t] = [fn |-> "connect", ret |-> FALSE]]
            /\ session' = [session EXCEPT !.config = cfg]
            /\ UNCHANGED <<channels, hist, cm>>
       ELSE /\ tl' = [tl EXCEPT ![t] = [fn |-> "connect", ret |-> ok]]
            /\ session' = [connected |-> ok,
                           epollfd |-> IF ok THEN "open" ELSE "closed",
                           config |-> cfg, address |-> ConnectAddr(cfg)]
            /\ channels' = [channels EXCEPT
                              !["MAIN"] = IF ok THEN channel_connect(@) ELSE @]
            /\ cm' = IF ok THEN channelMain_setCaps(FALSE) ELSE cm
            /\ hist' = [hist EXCEPT !.sockets = Append(@, ConnectAddr(cfg))]
  /\ UNCHANGED <<lock, wire, pc, mouse, motionBuffer, server, agent, net>>

\* Before purespice_connect: g_ps is zero.
InitConfig ==
  /\ channels = [c \in Channels |->
                   [FrameChannel EXCEPT !.available = FALSE,
                                        !.connected = FALSE, !.ready = FALSE]]
  /\ lock = [l \in Locks |-> Free]
  /\ wire = [c \in Channels |-> <<>>]
  /\ pc = [t \in Threads |-> "idle"]
  /\ tl = [t \in Threads |-> IdleLocals]
  /\ mouse = [buttonState |-> {}, sentCount |-> 0]
  /\ motionBuffer = [gen |-> 0, size |-> 0, data |-> <<>>]
  /\ server = [motionAcks |-> 0, acksSent |-> 0]
  /\ hist = [status |-> "RUN", sockets |-> <<>>]
  /\ agent = AgentIdle
  /\ net = NetIdle
  /\ session = [connected |-> FALSE, epollfd |-> "none", config |-> "none",
                address |-> "none"]
  /\ cm = MainIdle

NextConfig == purespice_connect("app1")

SpecConfig == InitConfig /\ [][NextConfig]_vars

\* The configuration errors of the claim: a mandatory callback missing for an
\* enabled group, or a host that is not an IPv4 literal with a non-zero port.
ConfigError(cfg) ==
  \/ CallbackMissing(cfg)
  \/ cfg.port # 0 /\ cfg.host \notin ValidIPv4

\* C19: when purespice_connect has been given a configuration error it has
\* returned false, opened no socket and attempted no connection.
C19_ConfigRefused ==
  (tl["app1"].fn = "connect" /\ ConfigError(session.config))
    => ~tl["app1"].ret /\ hist.sockets = <<>>

\* A missing mandatory callback is refused before any socket is opened.
MissingCallbackRefused ==
  (tl["app1"].fn = "connect" /\ CallbackMissing(session.config))
    => ~tl["app1"].ret /\ hist.sockets = <<>>

Deviations ==
  {"write_link", "read_header", "magic", "major_version", "undersized",
   "read_reply", "link_error", "write_auth", "encrypt", "write_password",
   "read_result", "link_result", "eof_header", "eof_reply", "eof_result"}

\* The failures of channel_readNL with read() < 0: it clears connected itself.
ReadErrors == {"read_header", "read_reply", "read_result"}

\* The failures of channel_readNL with read() = 0, the server having closed
\* the connection: it returns PS_STATUS_NODATA.
ReadClosed == {"eof_header", "eof_reply", "eof_result"}

\* channel_connect on channel ch with a server that deviates at step dev
\* ("none": it does not): the channel it leaves, the status it returns and
\* whether the socket was added to the epoll set.
channel_connectDev_mut(ch, dev) ==
  IF dev \in {"none", "link_result"}
  THEN [ch |-> channel_connect(ch), status |-> "OK", added |-> TRUE]
  ELSE LET linked == [channel_connect(ch) EXCEPT !.ready = FALSE]
           failed == IF dev \in ReadErrors
                     THEN [linked EXCEPT !.connected = FALSE]
                     ELSE linked
       IN [ch |-> channel_internal_disconnect(failed).ch,
           status |-> IF dev \in ReadClosed THEN "NODATA" ELSE "ERROR",
           added |-> FALSE]
channel_connectDev(ch, dev) ==
  IF dev = "none"
  THEN [ch |-> channel_connect(ch), status |-> "OK", added |-> TRUE]
  ELSE LET linked == [channel_connect(ch) EXCEPT !.ready = FALSE]
           failed == IF dev \in ReadErrors
                     THEN [linked EXCEPT !.connected = FALSE]
                     ELSE linked
       IN [ch |-> channel_internal_disconnect(failed).ch,
           status |-> IF dev \in ReadClosed THEN "NODATA" ELSE "ERROR",
           added |-> FALSE]

\* ps_connectChannel(c) with a deviation dev, from purespice_connectChannel
\* (path "api", thread t) or from onMessage_mainChannelsList inside
\* purespice_process (path "process"): a failed channel_connect is followed
\* by purespice_disconnect, and the caller sees false, or ERR_READ, or (the
\* handler having returned PS_STATUS_NODATA, which purespice_process takes
\* for the end of the main channel's data) SHUTDOWN.
link_connect(path, t, c, dev) ==
  \E K \in {channel_connectDev(channels[c], dev)} :
    LET ok == K.status = "OK"
        chs == [channels EXCEPT ![c] = [K.ch EXCEPT !.available = TRUE]]
        surfaced == IF path = "api" THEN (IF ok THEN "true" ELSE "false")
                    ELSE (IF ok THEN "RUN"
                          ELSE IF K.status = "NODATA" THEN "SHUTDOWN"
                          ELSE "ERR_READ")
    IN /\ channels' = IF ok THEN chs
                      ELSE [k \in Channels |->
                              channel_internal_disconnect(chs[k]).ch]
       /\ wire' = IF ok THEN wire
                  ELSE [k \in Channels |->
                          wire[k] \o channel_internal_disconnect(chs[k]).out]
       /\ session' = IF ok
                     THEN [session EXCEPT !.registered = @ \cup {c}]
                     ELSE [connected |-> FALSE, epollfd |-> "closed",
                           registered |-> {}]
       /\ agent' = IF ok THEN agent ELSE AgentIdle
       /\ hist' = [hist EXCEPT
                     !.status = IF path = "process" THEN surfaced ELSE @,
                     !.attempts = Append(@, [channel |-> c, dev |-> dev,
                                             path |-> path,
                                             surfaced |-> surfaced])]
       /\ tl' = IF path = "api"
                THEN [tl EXCEPT ![t] = [fn |-> "connectChannel", ret |-> ok]]
                ELSE tl
       /\ UNCHANGED <<cm, lock, pc, mouse, motionBuffer, server, net>>

\* purespice_connectChannel on an available channel that is not connected.
link_connectChannel(t, c) ==
  /\ session.connected
  /\ tl[t].fn = "none"
  /\ channels[c].available
  /\ ~channels[c].connected
  /\ \E dev \in Deviations \cup {"none"} : link_connect("api", t, c, dev)

\* A process call that handles a CHANNELS_LIST naming the one channel c.
link_channelsList(c) ==
  /\ session.connected
  /\ pc["proc"] = "idle"
  /\ ~channels[c].available
  /\ IF channels[c].enable /\ channels[c].autoConnect
     THEN \E dev \in Deviations \cup {"none"} :
            link_connect("process", "proc", c, dev)
     ELSE /\ channels' = [channels EXCEPT ![c].available = TRUE]
          /\ UNCHANGED <<session, cm, lock, wire, pc, tl, mouse, motionBuffer,
                         server, hist, agent, net>>

InitLink ==
  /\ \E au \in [FrameChannels -> BOOLEAN] :
       channels = [c \in Channels |->
                     [FrameChannel EXCEPT
                        !.available = FALSE,
                        !.connected = c = "MAIN",
                        !.ready = c = "MAIN",
                        !.enable = c # "RECORD",
                        !.autoConnect = IF c \in FrameChannels
                                        THEN au[c] ELSE TRUE]]
  /\ lock = [l \in Locks |-> Free]
  /\ wire = [c \in Channels |-> <<>>]
  /\ pc = [t \in Threads |-> "idle"]
  /\ tl = [t \in Threads |-> IdleLocals]
  /\ mouse = [buttonState |-> {}, sentCount |-> 0]
  /\ motionBuffer = [gen |-> 0, size |-> 0, data |-> <<>>]
  /\ server = [motionAcks |-> 0, acksSent |-> 0]
  /\ hist = [status |-> "RUN", attempts |-> <<>>]
  /\ agent = AgentIdle
  /\ net = NetIdle
  /\ session = [connected |-> TRUE, epollfd |-> "open",
                registered |-> {"MAIN"}]
  /\ cm = MainIdle

NextLink ==
  \/ \E c \in FrameChannels : link_connectChannel("app1", c)
  \/ \E c \in FrameChannels : link_channelsList(c)
  \/ api_return("app1")

SpecLink == InitLink /\ [][NextLink]_vars

\* The last handshake attempted, and whether it deviated.
LastAttempt == hist.attempts[Len(hist.attempts)]
Deviated == hist.attempts # <<>> /\ LastAttempt.dev # "none"

\* The channel of the last handshake is torn down.
TornDown ==
  /\ ~channels[LastAttempt.channel].connected
  /\ ~channels[LastAttempt.channel].ready
  /\ LastAttempt.channel \notin session.registered

ButtonOf(t) == IF t = "app1" THEN "LEFT" ELSE "RIGHT"

\* purespice_mousePress / purespice_mouseRelease, entry: mouseButton_entry,
\* with the history of which buttons the application holds down.
mouseButton_call(t, fn) ==
  /\ pc[t] = "idle"
  /\ CallsOf(t) < MaxCalls
  /\ hist' = [hist EXCEPT
                !.calls[t] = @ + 1,
                !.pressed = IF fn = "mousePress" THEN @ \cup {ButtonOf(t)}
                            ELSE @ \ {ButtonOf(t)}]
  /\ IF ~InputsReady
       THEN /\ tl' = [tl EXCEPT ![t] = [fn |-> fn, ret |-> FALSE,
                                        id |-> <<t, CallsOf(t) + 1>>,
                                        x |-> 0, y |-> 0]]
            /\ pc' = pc
       ELSE /\ tl' = [tl EXCEPT ![t] = [fn |-> fn, id |-> <<t, CallsOf(t) + 1>>,
                                        x |-> 0, y |-> 0,
                                        button |-> ButtonOf(t)]]
            /\ pc' = [pc EXCEPT ![t] = "mb_lockmouse"]
  /\ UNCHANGED <<session, cm, agent, net, channels, lock, wire, mouse,
                 motionBuffer, server>>

\* The process thread tears the INPUTS channel down (its socket has no more
\* data), and a later ps_connectChannel connects it again.
inputs_teardown ==
  /\ channels["INPUTS"].connected
  /\ hist.reconnects < MaxReconnect
  /\ channels' = [channels EXCEPT
                    !["INPUTS"] = channel_internal_disconnect(@).ch]
  /\ hist' = [hist EXCEPT !.reconnects = @ + 1]
  /\ UNCHANGED <<session, cm, lock, wire, pc, tl, mouse, motionBuffer, server,
                 agent, net>>

inputs_connect ==
  /\ ~channels["INPUTS"].connected
  /\ lock["INPUTS"] = Free
  /\ lock["mouse"] = Free
  /\ channels' = [channels EXCEPT !["INPUTS"] = channel_connect(@)]
  /\ UNCHANGED <<session, cm, lock, wire, pc, tl, mouse, motionBuffer, server,
                 hist, agent, net>>

InitButtons ==
  /\ channels = [c \in Channels |-> FrameChannel]
  /\ lock = [l \in Locks |-> Free]
  /\ wire = [c \in Channels |-> <<>>]
  /\ pc = [t \in Threads |-> "idle"]
  /\ tl = [t \in Threads |-> IdleLocals]
  /\ mouse = [buttonState |-> {}, sentCount |-> 0]
  /\ motionBuffer = [gen |-> 0, size |-> 0, data |-> <<>>]
  /\ server = [motionAcks |-> 0, acksSent |-> 0]
  /\ hist = [calls |-> [t \in Threads |-> 0], pressed |-> {},
             reconnects |-> 0, status |-> "RUN"]
  /\ agent = AgentIdle
  /\ net = NetIdle
  /\ session = SessionUp
  /\ cm = MainIdle

NextButtons ==
  \/ \E t \in AppThreads :
       \/ \E fn \in {"mousePress", "mouseRelease"} : mouseButton_call(t, fn)
       \/ mouseButton_steps(t)
  \/ inputs_teardown
  \/ inputs_connect

SpecButtons == InitButtons /\ [][NextButtons]_vars

\* Every call has returned.
ButtonsIdle == \A t \in AppThreads : pc[t] = "idle"

\* Every press packet sent carries its button set, every release packet
\* carries it clear.
PacketMasks ==
  \A i \in 1..Len(wire["INPUTS"]) :
    LET p == wire["INPUTS"][i]
    IN p.button \in p.button_state <=> p.kind = "mousePress"

\* C22: once every mousePress / mouseRelease call has returned, the shared
\* button mask holds exactly the buttons the application holds down, and
\* every packet sent carries the mask as its own call left it.
C22_ButtonMask ==
  /\ ButtonsIdle => mouse.buttonState = hist.pressed
  /\ PacketMasks

\* The same, for as long as the INPUTS channel has not been torn down.
ButtonMaskWhileUp ==
  /\ (ButtonsIdle /\ hist.reconnects = 0) => mouse.buttonState = hist.pressed
  /\ PacketMasks

(***************************************************************************)
(* SpecDrain: the agent queue with one application thread sending a        *)
(* message in several chunks while the process thread handles the server's *)
(* AGENT_TOKEN grants; the actions are SpecAgent's.  SpecDrainFair adds    *)
(* the scheduling the code relies on: a thread inside agent_writeMsg or    *)
(* agent_processQueue goes on running, the caller goes on calling          *)
(* purespice_process while AGENT_TOKEN messages are waiting, and the weak  *)
(* compare-exchange of agent_takeServerToken does not fail for ever.       *)
(***************************************************************************)
DrainThreads == {"app1", "proc"}

NextDrain ==
  \/ agent_startMsg("app1", AgentChunks("app1"))
  \/ agent_writeMsg("app1")
  \/ \E t \in DrainThreads : processQueue_steps(t)
  \/ \E n \in 1..2 : ServerAgentToken(n)
  \/ onMessage_mainAgentToken

SpecDrain == InitAgent /\ [][NextDrain]_vars

SpecDrainFair ==
  /\ SpecDrain
  /\ WF_vars(onMessage_mainAgentToken)
  /\ WF_vars(agent_writeMsg("app1"))
  /\ \A t \in DrainThreads :
       /\ WF_vars(processQueue_steps(t))
       /\ SF_vars(takeServerToken_cas(t) /\ pc'[t] = "pq_send")

\* No thread is inside an agent call or the token handler.
AgentQuiet == \A t \in Threads : pc[t] = "idle"

\* The carriers taken off the queue so far, sent or lost to a failed send.
AgentShifted == Len(hist.pushed) - Len(agent.queue)

ProtoMenu(c) ==
  IF c = "PLAYBACK"
  THEN {Msg("PLAYBACK_STOP", 0, 0, 0), Msg("UNKNOWN", InputsInitSize, 0, 0)}
  ELSE {Msg("INPUTS_INIT", InputsInitSize, 0, 0),
        Msg("INPUTS_KEY_MODIFIERS", InputsInitSize, 0, 0),
        Msg("UNKNOWN", InputsInitSize, 0, 0)}

ProtoSend(c) ==
  /\ FrameUp
  /\ channels[c].connected /\ channels[c].ready
  /\ hist.sent < MaxSrvMsgs
  /\ net[c].delivered = StreamLen(net[c].msgs)
  /\ \E m \in ProtoMenu(c) :
       net' = [net EXCEPT ![c].msgs = Append(@, m)]
  /\ hist' = [hist EXCEPT !.sent = @ + 1]
  /\ UNCHANGED <<session, cm, channels, lock, wire, pc, tl, mouse, motionBuffer,
                 server, agent>>

NextProto ==
  \/ process_entry
  \/ process_visit
  \/ \E c \in FrameChannels :
       \/ ProtoSend(c)
       \/ ServerDeliver(c)

SpecProto == InitFrame /\ [][NextProto]_vars

\* The message types of the protocol on channel c.
KnownTypes(c) ==
  CommonTypes \cup
    (IF c = "PLAYBACK"
     THEN {"PLAYBACK_START", "PLAYBACK_MODE", "PLAYBACK_DATA", "PLAYBACK_STOP",
           "PLAYBACK_VOLUME", "PLAYBACK_MUTE"}
     ELSE {"INPUTS_INIT", "INPUTS_KEY_MODIFIERS", "INPUTS_MOUSE_MOTION_ACK"})

\* A message of the given type is a protocol error on channel c: a type
\* the channel does not know, a message other than the init before the
\* init, a second init.
ProtocolError(c, initDone, type) ==
  \/ type \notin KnownTypes(c)
  \/ c = "INPUTS" /\ type \notin CommonTypes /\ (initDone <=> type = "INPUTS_INIT")

\* The pass of purespice_process on the current channel completes a header.
HeaderPass ==
  /\ pc["proc"] = "loop"
  /\ tl'["proc"] # tl["proc"]
  /\ LET c == tl["proc"].events[tl["proc"].i]
     IN /\ channels[c].headerRead < HeaderSize
        /\ Visit(c).res \notin {"continue", "disconnect", "MISFRAMED"}

\* The header that pass completes is a protocol error.
OffendingPass ==
  /\ HeaderPass
  /\ LET c == tl["proc"].events[tl["proc"].i]
     IN ProtocolError(c, channels[c].initDone, Visit(c).ch.header.type)

\* C24: the process call that meets a protocol error (a message other than
\* the init before the init, a duplicate init, an unknown message type)
\* returns in that pass, with an ERR_* status.
C24_ProtocolError ==
  [][OffendingPass => /\ pc'["proc"] = "idle"
                      /\ hist'.status \in {"ERR_READ", "ERR_ACK", "ERR_POLL"}]_vars

\* The part that holds: a message before the init, a duplicate init, and
\* an unknown type on PLAYBACK end the call with ERR_READ; the first two
\* after purespice_disconnect has torn every channel down.
ProtocolErrorRefused ==
  [][(/\ OffendingPass
      /\ LET c == tl["proc"].events[tl["proc"].i]
         IN c = "INPUTS" => Visit(c).ch.header.type \in KnownTypes(c))
       => /\ pc'["proc"] = "idle"
          /\ hist'.status = "ERR_READ"
          /\ tl["proc"].events[tl["proc"].i] = "INPUTS"
               => \A k \in Channels : ~channels'[k].connected]_vars

(***************************************************************************)
(* SpecClipOut: the application sends clipboard data (clipboardDataStart,  *)
(* then clipboardData calls) while the process thread answers the agent's  *)
(* capability requests (agent_process, agent_sendCaps).  Both go through   *)
(* agent_startMsg and agent_writeMsg and so through agent.msgSize.  Bytes  *)
(* are counted, not valued; the server has granted no token, so the        *)
(* carriers stay on the queue in the order pushed.                         *)
(***************************************************************************)
VD_AGENT_MAX_DATA_SIZE == 2048

\* sizeof(VDAgentAnnounceCapabilities) + VD_AGENT_CAPS_BYTES
CapsSize == 8

\* The sizes the application declares and supplies.
ClipOutSizes == {1, VD_AGENT_MAX_DATA_SIZE, VD_AGENT_MAX_DATA_SIZE + 1,
                 2 * VD_AGENT_MAX_DATA_SIZE + 1}

\* agent_startMsg: the header packet is pushed and msgSize is set.
StartMsg(a, type, size) ==
  [a EXCEPT !.msgSize = size,
            !.queue = QueuePush(@, [kind |-> "header", type |-> type,
                                    len |-> VDAgentMessageSize])]

\* agent_writeMsg's loop: carriers of at most VD_AGENT_MAX_DATA_SIZE bytes.
RECURSIVE WriteMsg(_, _, _)
WriteMsg(a, type, size) ==
  IF size = 0 THEN a
  ELSE LET toWrite == IF size > VD_AGENT_MAX_DATA_SIZE
                      THEN VD_AGENT_MAX_DATA_SIZE ELSE size
       IN WriteMsg([a EXCEPT !.msgSize = @ - toWrite,
                             !.queue = QueuePush(@, [kind |-> "data",
                                                     type |-> type,
                                                     len |-> toWrite])],
                   type, size - toWrite)

ClipOutUp == hist.status = "RUN" /\ agent.present

\* purespice_clipboardDataStart(type, size): the VD_AGENT_CLIPBOARD header
\* for the selection or type prefix and size bytes, then the prefix.
purespice_clipboardDataStart(size) ==
  /\ ClipOutUp
  /\ hist.msgs < MaxClipMsgs
  /\ LET bufSize == IF agent.cbSelection THEN SelectionSize + ClipTypeSize
                    ELSE ClipTypeSize
     IN agent' = WriteMsg(StartMsg(agent, "CLIPBOARD", bufSize + size),
                          "CLIPBOARD", bufSize)
  /\ hist' = [hist EXCEPT !.msgs = @ + 1, !.declared = size, !.supplied = 0,
                          !.calls = 0, !.from = Len(agent.queue) + 2,
                          !.between = FALSE]
  /\ UNCHANGED <<session, cm, channels, lock, wire, pc, tl, mouse, motionBuffer,
                 server, net>>

\* purespice_clipboardData(type, data, size): agent_writeMsg.  A failed
\* assert aborts the program; compiled with NDEBUG the write goes on.
purespice_clipboardData(size) ==
  /\ ClipOutUp
  /\ hist.msgs > 0
  /\ hist.calls < MaxCalls
  /\ hist.supplied + size <= hist.declared
  /\ IF size <= agent.msgSize
       THEN /\ agent' = WriteMsg(agent, "CLIPBOARD", size)
            /\ hist' = [hist EXCEPT !.supplied = @ + size, !.calls = @ + 1]
       ELSE \/ /\ agent' = agent
               /\ hist' = [hist EXCEPT !.assert = TRUE, !.status = "ABORT"]
            \/ /\ agent' = WriteMsg(agent, "CLIPBOARD", size)
               /\ hist' = [hist EXCEPT !.assert = TRUE, !.supplied = @ + size,
                                       !.calls = @ + 1]
  /\ UNCHANGED <<session, cm, channels, lock, wire, pc, tl, mouse, motionBuffer,
                 server, net>>

\* agent_process on VD_AGENT_ANNOUNCE_CAPABILITIES with request set:
\* agent_sendCaps(false) starts and writes the capability reply.
agent_sendCaps ==
  /\ ClipOutUp
  /\ hist.caps < MaxCalls
  /\ agent' = WriteMsg(StartMsg(agent, "ANNOUNCE_CAPABILITIES", CapsSize),
                       "ANNOUNCE_CAPABILITIES", CapsSize)
  /\ hist' = [hist EXCEPT !.caps = @ + 1, !.between = hist.msgs > 0]
  /\ UNCHANGED <<session, cm, channels, lock, wire, pc, tl, mouse, motionBuffer,
                 server, net>>

InitClipOut ==
  /\ channels = InputsUp
  /\ lock = [l \in Locks |-> Free]
  /\ wire = [c \in Channels |-> <<>>]
  /\ pc = [t \in Threads |-> "idle"]
  /\ tl = [t \in Threads |-> IdleLocals]
  /\ mouse = [buttonState |-> {}, sentCount |-> 0]
  /\ motionBuffer = [gen |-> 0, size |-> 0, data |-> <<>>]
  /\ server = [motionAcks |-> 0, acksSent |-> 0]
  /\ net = NetIdle
  /\ session = SessionUp
  /\ cm = MainIdle
  /\ \E sel \in BOOLEAN :
       agent = [present |-> TRUE, cbSelection |-> sel, queue |-> <<>>,
                serverTokens |-> 0, msgSize |-> 0]
  /\ hist = [status |-> "RUN", msgs |-> 0, declared |-> 0, supplied |-> 0,
             calls |-> 0, from |-> 1, caps |-> 0, between |-> FALSE, assert |-> FALSE]

NextClipOut ==
  \/ \E size \in ClipOutSizes : purespice_clipboardDataStart(size)
  \/ \E size \in ClipOutSizes : purespice_clipboardData(size)
  \/ agent_sendCaps

SpecClipOut == InitClipOut /\ [][NextClipOut]_vars

\* The bytes in the clipboard data carriers pushed since the last
\* clipboardDataStart, its prefix included.
RECURSIVE ClipOutBytes(_, _)
ClipOutBytes(q, i) ==
  IF i > Len(q) THEN 0
  ELSE (IF q[i].kind = "data" /\ q[i].type = "CLIPBOARD" THEN q[i].len ELSE 0)
       + ClipOutBytes(q, i + 1)

ClipOutPrefix ==
  IF agent.cbSelection THEN SelectionSize + ClipTypeSize ELSE ClipTypeSize

\* C25: after clipboardDataStart, the carriers of the clipboardData calls
\* are at most VD_AGENT_MAX_DATA_SIZE bytes each and carry exactly the
\* bytes supplied, and the msgSize assertion never fails for a caller who
\* supplies at most the declared size, whatever agent messages are started
\* in between.
C25_DataFragments ==
  /\ \A i \in 1..Len(agent.queue) :
       agent.queue[i].kind = "data"
         => agent.queue[i].len \in 1..VD_AGENT_MAX_DATA_SIZE
  /\ hist.msgs > 0
       => ClipOutBytes(agent.queue, hist.from) = ClipOutPrefix + hist.supplied
  /\ ~hist.assert

\* The part that holds: the fragmentation; and as long as no other agent
\* message was started after clipboardDataStart, msgSize is what is left of
\* the declared size.  The assertion fails only after a capability reply.
ClipOutUndisturbed ==
  /\ \A i \in 1..Len(agent.queue) :
       agent.queue[i].kind = "data"
         => agent.queue[i].len \in 1..VD_AGENT_MAX_DATA_SIZE
  /\ (hist.msgs > 0 /\ hist.status = "RUN")
       => ClipOutBytes(agent.queue, hist.from) = ClipOutPrefix + hist.supplied
  /\ (hist.msgs > 0 /\ ~hist.between)
       => agent.msgSize = hist.declared - hist.supplied
  /\ hist.assert => hist.caps > 0

(***************************************************************************)
(* SpecKeys: purespice_keyDown and purespice_keyUp on a ready INPUTS       *)
(* channel.  Each call maps its key code and sends one packet, or its send *)
(* fails.                                                                  *)
(***************************************************************************)
RECURSIVE BitOr(_, _)
BitOr(a, b) ==
  IF a = 0 THEN b
  ELSE IF b = 0 THEN a
  ELSE (IF a % 2 = 1 \/ b % 2 = 1 THEN 1 ELSE 0)
       + 2 * BitOr(a \div 2, b \div 2)

\* The key codes the application passes: single-byte codes, the boundary
\* 0x100 and extended codes.
KeyCodes == {1, 30, 127, 128, 255, 256, 257, 284, 511}

\* purespice_keyDown: if (code > 0x100) code = 0xe0 | ((code - 0x100) << 8)
KeyDownCode(code) ==
  IF code > 256 THEN BitOr(224, (code - 256) * 256) ELSE code

\* purespice_keyUp: if (code < 0x100) code |= 0x80;
\* else code = 0x80e0 | ((code - 0x100) << 8)
KeyUpCode(code) ==
  IF code < 256 THEN BitOr(code, 128)
  ELSE BitOr(32992, (code - 256) * 256)

purespice_key(t, fn, code) ==
  /\ pc[t] = "idle"
  /\ InputsReady
  /\ CallsOf(t) < MaxCalls
  /\ hist' = [hist EXCEPT !.calls[t] = @ + 1]
  /\ \/ wire' = [wire EXCEPT !["INPUTS"] =
                   Append(@, [kind |-> fn, key |-> code,
                              code |-> IF fn = "KEY_DOWN" THEN KeyDownCode(code)
                                       ELSE KeyUpCode(code)])]
     \/ wire' = wire
  /\ UNCHANGED <<session, cm, channels, lock, pc, tl, mouse, motionBuffer,
                 server, agent, net>>

purespice_keyDown(t, code) == purespice_key(t, "KEY_DOWN", code)

purespice_keyUp(t, code) == purespice_key(t, "KEY_UP", code)

InitKeys ==
  /\ channels = InputsUp
  /\ lock = [l \in Locks |-> Free]
  /\ wire = [c \in Channels |-> <<>>]
  /\ pc = [t \in Threads |-> "idle"]
  /\ tl = [t \in Threads |-> IdleLocals]
  /\ mouse = [buttonState |-> {}, sentCount |-> 0]
  /\ motionBuffer = [gen |-> 0, size |-> 0, data |-> <<>>]
  /\ server = [motionAcks |-> 0, acksSent |-> 0]
  /\ hist = [calls |-> [t \in Threads |-> 0]]
  /\ agent = AgentIdle
  /\ net = NetIdle
  /\ session = SessionUp
  /\ cm = MainIdle

NextKeys ==
  \/ \E code \in KeyCodes : purespice_keyDown("app1", code)
  \/ \E code \in KeyCodes : purespice_keyUp("app1", code)

SpecKeys == InitKeys /\ [][NextKeys]_vars

\* The make and break codes of key k as a single-byte code and as an
\* extended code.
SingleByte(k) == [down |-> k, up |-> BitOr(k, 128)]
Extended(k) == [down |-> BitOr(224, (k - 256) * 256),
                up |-> BitOr(32992, (k - 256) * 256)]

\* C26: every key-down packet carries the key's code unchanged (single
\* byte) or 0xe0 | ((k - 0x100) << 8) (extended), every key-up packet the
\* matching up-code, codes below 0x100 are single-byte and codes above are
\* extended, and a key's down and up packets are of the same class, the
\* boundary 0x100 included.
C26_KeyCodes ==
  \A i \in 1..Len(wire["INPUTS"]) :
    LET p == wire["INPUTS"][i]
        f == IF p.kind = "KEY_DOWN" THEN "down" ELSE "up"
    IN /\ p.key < 256 => p.code = SingleByte(p.key)[f]
       /\ p.key > 256 => p.code = Extended(p.key)[f]
       /\ \A j \in 1..Len(wire["INPUTS"]) :
            LET q == wire["INPUTS"][j]
            IN (q.key = p.key /\ p.kind = "KEY_DOWN" /\ q.kind = "KEY_UP")
                 => \/ p.code = SingleByte(p.key).down
                       /\ q.code = SingleByte(p.key).up
                    \/ p.code = Extended(p.key).down
                       /\ q.code = Extended(p.key).up

\* The part that holds: the same for every key code but 0x100.
KeyCodesOffBoundary ==
  \A i \in 1..Len(wire["INPUTS"]) :
    LET p == wire["INPUTS"][i]
        f == IF p.kind = "KEY_DOWN" THEN "down" ELSE "up"
    IN /\ p.key < 256 => p.code = SingleByte(p.key)[f]
       /\ p.key > 256 => p.code = Extended(p.key)[f]

\* The process thread makes a pass of the inner loop on channel c.
PassOn(c) ==
  /\ pc["proc"] = "loop"
  /\ tl'["proc"] # tl["proc"]
  /\ tl["proc"].events[tl["proc"].i] = c

\* The server has written a message on channel c of which some bytes have
\* not reached the client yet.
InFlight(c) == net[c].delivered < StreamLen(net[c].msgs)

\* C27: a message whose bytes arrive in pieces is reassembled: a pass of
\* purespice_process on a channel whose current message is still partly in
\* flight (its header partly there, or its header there and its payload
\* not) leaves the channel connected, and no message is dispatched twice.
C27_Reassembly ==
  [][\A c \in FrameChannels :
       /\ (PassOn(c) /\ InFlight(c)) => channels'[c].connected
       /\ \A i, j \in 1..Len(hist'.log[c]) :
            i # j => hist'.log[c][i] # hist'.log[c][j]]_vars

\* The part that holds: once the header is complete and a part of the
\* payload has been read, the rest is read as it arrives, over as many
\* process calls as it takes; and no message is dispatched twice.
PayloadReassembled ==
  [][\A c \in FrameChannels :
       /\ (PassOn(c) /\ InFlight(c) /\ channels[c].headerRead = HeaderSize)
            => channels'[c].connected
       /\ \A i, j \in 1..Len(hist'.log[c]) :
            i # j => hist'.log[c][i] # hist'.log[c][j]]_vars

(***************************************************************************)
(* SpecRetry: SpecProto with a caller that calls purespice_process again   *)
(* after it returned PS_STATUS_ERR_READ.  The channel is as the failed     *)
(* call left it.  Calling PS_HANDLER_ERROR, (PSHandlerFn)(-1), or          *)
(* PS_HANDLER_DISCARD, (PSHandlerFn)(0), as a function is undefined: the   *)
(* program crashes, or goes on as if the call had returned PS_STATUS_OK.   *)
(***************************************************************************)
Sentinels == {"DISCARD", "ERROR"}

\* purespice_process up to epoll_wait, called after an error return.
process_retry ==
  /\ pc["proc"] = "idle"
  /\ hist.status = "ERR_READ"
  /\ session.epollfd = "open"
  /\ LET pend == {c \in Channels :
                    channels[c].initDone /\ channels[c].doDisconnect}
         chs == [c \in Channels |->
                   IF c \in pend THEN channel_internal_disconnect(channels[c]).ch
                   ELSE channels[c]]
         readable == {c \in FrameChannels :
                        /\ chs[c].connected /\ chs[c].ready
                        /\ net[c].delivered > net[c].read}
     IN /\ pend # {} \/ readable # {}
        /\ channels' = chs
        /\ wire' = [c \in Channels |->
                      IF c \in pend
                      THEN wire[c] \o channel_internal_disconnect(channels[c]).out
                      ELSE wire[c]]
        /\ IF readable = {}
           THEN UNCHANGED <<session, cm, pc, tl>>
           ELSE /\ pc' = [pc EXCEPT !["proc"] = "loop"]
                /\ \E ev \in Perms(readable) :
                     tl' = [tl EXCEPT !["proc"] =
                              [fn |-> "process", ret |-> TRUE, events |-> ev,
                               i |-> 1, done |-> 0]]
  /\ UNCHANGED <<session, cm, lock, mouse, motionBuffer, server, hist, agent, net>>

\* The pass on the current channel reads the rest of a payload and calls
\* channel->handlerFn.
HandlerCall(c) ==
  /\ pc["proc"] = "loop"
  /\ tl["proc"].events[tl["proc"].i] = c
  /\ Visit(c).log # <<>>

\* The same, when channel->handlerFn holds one of the sentinel values.
SentinelCall(c) ==
  /\ HandlerCall(c)
  /\ channels[c].headerRead = HeaderSize
  /\ channels[c].handlerFn \in Sentinels

\* The call through the sentinel crashes the program.
process_crash ==
  /\ \E c \in FrameChannels : SentinelCall(c)
  /\ hist' = [hist EXCEPT !.status = "CRASH"]
  /\ pc' = [pc EXCEPT !["proc"] = "idle"]
  /\ tl' = [tl EXCEPT !["proc"] = [fn |-> "none", ret |-> FALSE]]
  /\ UNCHANGED <<session, cm, channels, lock, wire, mouse, motionBuffer, server,
                 agent, net>>

NextRetry ==
  \/ process_entry
  \/ process_retry
  \/ process_visit
  \/ process_crash
  \/ \E c \in FrameChannels :
       \/ ProtoSend(c)
       \/ ServerDeliver(c)

SpecRetry == InitFrame /\ [][NextRetry]_vars

\* C28: in a process call made after an error return, no pass calls a
\* sentinel value as the handler, the handler called is the one the
\* dispatch gives for the message whose payload was read, and the message
\* that caused the error is not dispatched.
C28_AfterError ==
  [][\A c \in FrameChannels :
       (hist.status = "ERR_READ" /\ HandlerCall(c))
         => /\ ~SentinelCall(c)
            /\ LET m == net[c].msgs[Visit(c).log[1]]
               IN /\ Visit(c).ch.handlerFn = Dispatch(c, channels[c], m.type)
                  /\ m.type \in KnownTypes(c)]_vars

\* The part that holds: as long as no call has returned an error, the
\* handler called is never a sentinel and is the one the dispatch gave for
\* the message.
HandlerWhileRunning ==
  [][\A c \in FrameChannels :
       (hist.status = "RUN" /\ HandlerCall(c))
         => /\ ~SentinelCall(c)
            /\ Visit(c).ch.handlerFn \notin Sentinels
            /\ net[c].msgs[Visit(c).log[1]].type \in KnownTypes(c)]_vars

\* Channel c is connected again by this step.
Reconnected(c) == ~channels[c].connected /\ channels'[c].connected

\* C29: a channel that was torn down and is connected again starts with a
\* clean receive state: headerRead = 0, bufferRead = 0, discarding = false
\* and discardSize = 0.
C29_CleanReconnect ==
  [][\A c \in FrameChannels :
       Reconnected(c)
         => /\ channels'[c].headerRead = 0
            /\ channels'[c].bufferRead = 0
            /\ ~channels'[c].discarding
            /\ channels'[c].discardSize = 0]_vars

\* The part that holds: the two cursors and the fields channel_connect
\* resets are clean.
ReconnectCursors ==
  [][\A c \in FrameChannels :
       Reconnected(c)
         => /\ channels'[c].headerRead = 0
            /\ channels'[c].bufferRead = 0
            /\ ~channels'[c].initDone
            /\ ~channels'[c].doDisconnect
            /\ channels'[c].ackFrequency = 0
            /\ channels'[c].ackCount = 0]_vars

\* Carriers p and q belong to the same agent message.
SameMsg(p, q) == p.by = q.by /\ p.msg = q.msg

\* The carriers of every message are next to each other in the sequence s.
Contiguous(s) ==
  \A i, k \in 1..Len(s) :
    (i < k /\ SameMsg(s[i], s[k]))
      => \A j \in i..k : SameMsg(s[i], s[j])

\* C30: the carriers of an agent message, its header packet and then its
\* data chunks, are queued and emitted contiguously and in order, never
\* interleaved with the carriers of a message produced concurrently.
C30_MessageContiguous ==
  /\ Contiguous(hist.pushed)
  /\ Contiguous(AgentEmitted)
  /\ \A i, k \in 1..Len(hist.pushed) :
       (i < k /\ SameMsg(hist.pushed[i], hist.pushed[k]))
         => hist.pushed[i].part < hist.pushed[k].part

\* The part that holds: the carriers of one message are queued in order,
\* header first.
MessageInOrder ==
  \A i, k \in 1..Len(hist.pushed) :
    (i < k /\ SameMsg(hist.pushed[i], hist.pushed[k]))
      => hist.pushed[i].part < hist.pushed[k].part

(***************************************************************************)
(* SpecAgentLife: the agent's life cycle.  The process thread handles the  *)
(* server's AGENT_CONNECTED, AGENT_DISCONNECTED and AGENT_TOKEN messages   *)
(* while an application thread makes a clipboard call (the present check,  *)
(* agent_startMsg, agent_writeMsg).  agent.queue is a pointer: null, live, *)
(* or dangling between queue_free and the assignment of NULL.  Using a     *)
(* null or dangling queue is undefined: the program crashes, or the        *)
(* access goes unnoticed and the call goes on.                             *)
(***************************************************************************)
NullQueue == [state |-> "null", items |-> <<>>]

LiveQueue(items) == [state |-> "live", items |-> items]

LifeUp == hist.status = "RUN"

\* The outcomes of an access to a queue that is not live, made by thread t
\* in function fn: a crash, or nothing the program notices.
QueueFault(t, fn) ==
  /\ hist' = [hist EXCEPT !.fault = @ \cup {[by |-> t, fn |-> fn,
                                             queue |-> agent.queue.state]},
                          !.status = "CRASH"]
  /\ pc' = [pc EXCEPT ![t] = "idle"]
  /\ UNCHANGED <<agent, wire>>

\* agent_processQueue as one step on a live queue: carriers are sent while
\* the queue has one and a token is left.
RECURSIVE DrainQueue(_, _)
DrainQueue(a, out) ==
  IF a.queue.items = <<>> \/ ~TokenAvailable(a.serverTokens)
  THEN [agent |-> a, out |-> out]
  ELSE DrainQueue([a EXCEPT !.queue.items = Tail(@),
                            !.serverTokens = @ - 1],
                  Append(out, [kind |-> "agent", id |-> Head(a.queue.items)]))

\* The server's next message on MAIN is one of the agent messages.
ServerAgentMsg(type) ==
  /\ LifeUp
  /\ hist.sent < MaxSrvMsgs
  /\ net = <<>>
  /\ net' = <<type>>
  /\ hist' = [hist EXCEPT !.sent = @ + 1]
  /\ UNCHANGED <<session, cm, channels, lock, wire, pc, tl, mouse, motionBuffer,
                 server, agent>>

\* onMessage_mainAgentConnected: agent_connect makes or empties the queue,
\* sends AGENT_START, sets present and queues the capability announcement.
life_agentConnected ==
  /\ LifeUp
  /\ pc["proc"] = "idle"
  /\ net = <<"AGENT_CONNECTED">>
  /\ net' = <<>>
  /\ \E D \in {DrainQueue(
                 [agent EXCEPT !.present = TRUE,
                               !.queue = LiveQueue(<<[by |-> "proc", msg |-> hist.sent, part |-> 0],
                                                     [by |-> "proc", msg |-> hist.sent, part |-> 1]>>)],
                 <<>>)} :
       /\ agent' = D.agent
       /\ wire' = [wire EXCEPT !["MAIN"] =
                     @ \o <<[kind |-> "AGENT_START", id |-> hist.sent]>> \o D.out]
  /\ UNCHANGED <<session, cm, channels, lock, pc, tl, mouse, motionBuffer, server,
                 hist>>

\* onMessage_mainAgentDisconnected, agent_disconnect: the queue is emptied
\* and freed ...
life_agentDisconnected ==
  /\ LifeUp
  /\ pc["proc"] = "idle"
  /\ net = <<"AGENT_DISCONNECTED">>
  /\ net' = <<>>
  /\ IF agent.queue.state = "live"
       THEN /\ agent' = [agent EXCEPT !.queue = [state |-> "freed", items |-> <<>>]]
            /\ pc' = [pc EXCEPT !["proc"] = "ad_null"]
       ELSE /\ agent' = agent
            /\ pc' = [pc EXCEPT !["proc"] = "ad_present"]
  /\ UNCHANGED <<session, cm, channels, lock, wire, tl, mouse, motionBuffer, server,
                 hist>>

\* ... then agent.queue = NULL ...
agent_disconnect_null ==
  /\ pc["proc"] = "ad_null"
  /\ agent' = [agent EXCEPT !.queue = NullQueue]
  /\ pc' = [pc EXCEPT !["proc"] = "ad_present"]
  /\ UNCHANGED <<session, cm, channels, lock, wire, tl, mouse, motionBuffer, server,
                 hist, net>>

\* ... and, last, agent.present = false.
agent_disconnect_present ==
  /\ pc["proc"] = "ad_present"
  /\ agent' = [agent EXCEPT !.present = FALSE]
  /\ pc' = [pc EXCEPT !["proc"] = "idle"]
  /\ UNCHANGED <<session, cm, channels, lock, wire, tl, mouse, motionBuffer, server,
                 hist, net>>

\* onMessage_mainAgentToken: agent_returnServerTokens, then
\* agent_processQueue, whose queue_peek reads agent.queue->head.
life_agentToken ==
  /\ LifeUp
  /\ pc["proc"] = "idle"
  /\ net = <<"AGENT_TOKEN">>
  /\ net' = <<>>
  /\ IF agent.queue.state = "live"
       THEN \E D \in {DrainQueue([agent EXCEPT !.serverTokens = @ + 1], <<>>)} :
              /\ agent' = D.agent
              /\ wire' = [wire EXCEPT !["MAIN"] = @ \o D.out]
              /\ UNCHANGED <<pc, hist>>
       ELSE \/ QueueFault("proc", "onMessage_mainAgentToken")
            \/ /\ agent' = [agent EXCEPT !.serverTokens = @ + 1]
               /\ hist' = [hist EXCEPT !.fault = @ \cup
                             {[by |-> "proc", fn |-> "onMessage_mainAgentToken",
                               queue |-> agent.queue.state]}]
               /\ UNCHANGED <<pc, wire>>
  /\ UNCHANGED <<session, cm, channels, lock, tl, mouse, motionBuffer, server>>

\* A clipboard call (purespice_clipboardGrab, Release, Request):
\* if (!agent.present) return false
clipboard_entry(t) ==
  /\ LifeUp
  /\ pc[t] = "idle"
  /\ CallsOf(t) < MaxCalls
  /\ hist' = [hist EXCEPT !.calls[t] = @ + 1]
  /\ pc' = [pc EXCEPT ![t] = IF agent.present THEN "cl_start" ELSE "idle"]
  /\ UNCHANGED <<session, cm, channels, lock, wire, tl, mouse, motionBuffer, server,
                 agent, net>>

\* agent_startMsg's and agent_writeMsg's queue_push(agent.queue, msg).
clipboard_push(t) ==
  /\ LifeUp
  /\ pc[t] \in {"cl_start", "cl_write"}
  /\ LET part == IF pc[t] = "cl_start" THEN 0 ELSE 1
     IN IF agent.queue.state = "live"
        THEN /\ agent' = [agent EXCEPT !.queue.items =
                            QueuePush(@, [by |-> t, msg |-> CallsOf(t),
                                          part |-> part])]
             /\ pc' = [pc EXCEPT ![t] = IF part = 0 THEN "cl_drain0"
                                        ELSE "cl_drain1"]
             /\ UNCHANGED <<wire, hist>>
        ELSE \/ QueueFault(t, "queue_push")
             \/ /\ pc' = [pc EXCEPT ![t] = IF part = 0 THEN "cl_drain0"
                                           ELSE "cl_drain1"]
                /\ hist' = [hist EXCEPT !.fault = @ \cup
                              {[by |-> t, fn |-> "queue_push",
                                queue |-> agent.queue.state]}]
                /\ UNCHANGED <<agent, wire>>
  /\ UNCHANGED <<session, cm, channels, lock, tl, mouse, motionBuffer, server, net>>

\* The agent_processQueue that ends agent_startMsg and agent_writeMsg.
clipboard_drain(t) ==
  /\ LifeUp
  /\ pc[t] \in {"cl_drain0", "cl_drain1"}
  /\ IF agent.queue.state = "live"
       THEN \E D \in {DrainQueue(agent, <<>>)} :
              /\ agent' = D.agent
              /\ wire' = [wire EXCEPT !["MAIN"] = @ \o D.out]
              /\ pc' = [pc EXCEPT ![t] = IF pc[t] = "cl_drain0" THEN "cl_write"
                                         ELSE "idle"]
              /\ hist' = hist
       ELSE \/ QueueFault(t, "agent_processQueue")
            \/ /\ pc' = [pc EXCEPT ![t] = IF pc[t] = "cl_drain0" THEN "cl_write"
                                          ELSE "idle"]
               /\ hist' = [hist EXCEPT !.fault = @ \cup
                             {[by |-> t, fn |-> "agent_processQueue",
                               queue |-> agent.queue.state]}]
               /\ UNCHANGED <<agent, wire>>
  /\ UNCHANGED <<session, cm, channels, lock, tl, mouse, motionBuffer, server, net>>

\* The session after MAIN_INIT, with the agent connected or not.
InitAgentLife ==
  /\ channels = InputsUp
  /\ lock = [l \in Locks |-> Free]
  /\ wire = [c \in Channels |-> <<>>]
  /\ pc = [t \in Threads |-> "idle"]
  /\ tl = [t \in Threads |-> IdleLocals]
  /\ mouse = [buttonState |-> {}, sentCount |-> 0]
  /\ motionBuffer = [gen |-> 0, size |-> 0, data |-> <<>>]
  /\ server = [motionAcks |-> 0, acksSent |-> 0]
  /\ net = NetIdle
  /\ session = SessionUp
  /\ cm = MainIdle
  /\ hist = [status |-> "RUN", sent |-> 0, fault |-> {},
             calls |-> [t \in Threads |-> 0]]
  /\ \E there \in BOOLEAN, n \in 0..MaxTokens :
       agent = [present |-> there,
                queue |-> IF there THEN LiveQueue(<<>>) ELSE NullQueue,
                serverTokens |-> n]

NextAgentLife ==
  \/ \E type \in {"AGENT_CONNECTED", "AGENT_DISCONNECTED", "AGENT_TOKEN"} :
       ServerAgentMsg(type)
  \/ life_agentConnected
  \/ life_agentDisconnected
  \/ agent_disconnect_null
  \/ agent_disconnect_present
  \/ life_agentToken
  \/ clipboard_entry("app1")
  \/ clipboard_push("app1")
  \/ clipboard_drain("app1")

SpecAgentLife == InitAgentLife /\ [][NextAgentLife]_vars

\* C31: an AGENT_TOKEN message handled while no agent is present accesses
\* no queue that was never created or has been freed.
C31_TokenNoAgent ==
  \A f \in hist.fault : f.fn # "onMessage_mainAgentToken"

\* The part that holds: the token handler meets a queue that is not live
\* only as a null pointer, which is when no agent is present; with an
\* agent present it finds a live queue, adds the credit and drains.
TokenWhilePresent ==
  \A f \in hist.fault :
    f.fn = "onMessage_mainAgentToken" => f.by = "proc" /\ f.queue = "null"

\* C32: a clipboard call made while the process thread tears the agent
\* down or restarts it never pushes to or drains a queue that is null or
\* freed, and once the calls have returned no carrier is queued for an
\* agent that is not present.
C32_ClipboardTeardown ==
  /\ \A f \in hist.fault : f.by \notin AppThreads
  /\ ((\A t \in Threads : pc[t] = "idle") /\ ~agent.present)
       => agent.queue.items = <<>>

\* The part that holds: a clipboard call that starts and ends between two
\* agent messages of the process thread finds a live queue.
ClipboardCallAlone ==
  [][\A t \in AppThreads :
       (pc[t] # "idle" /\ pc'[t] # pc[t] /\ pc["proc"] = "idle" /\ agent.present)
         => hist'.fault = hist.fault]_vars

(***************************************************************************)
(* SpecClipOver: SpecClip with an agent that may end a transfer with a     *)
(* continuation carrier longer than what is left of the message.           *)
(***************************************************************************)
ServerClipboardOver(k) ==
  /\ net.rest # <<>>
  /\ LET c == [first |-> FALSE, sel |-> 0, msgSize |-> 0,
               data |-> net.rest \o Fill(k, 0)]
     IN net' = [net EXCEPT
                  !.carriers = Append(@, c),
                  !.rest = <<>>,
                  !.done = Append(@, net.cur)]
  /\ UNCHANGED <<session, cm, channels, lock, wire, pc, tl, mouse, motionBuffer,
                 server, hist, agent>>

NextClipOver ==
  \/ \E T \in 1..MaxClipLen : \E k \in 0..T : ServerClipboardFirst(T, k)
  \/ \E k \in 1..MaxClipLen : ServerClipboardNext(k)
  \/ \E k \in 1..MaxClipLen : ServerClipboardOver(k)
  \/ agent_process

SpecClipOver == InitClip /\ [][NextClipOver]_vars

\* C33: the bytes copied into the reassembly buffer never exceed the bytes
\* allocated for it, and the remaining-bytes counter never wraps below
\* zero, whatever carriers arrive.
C33_ReassemblyBounds ==
  /\ ~hist.ub
  /\ agent.cbRemain >= 0
  /\ agent.cbRemain # 0 => agent.cbSize <= Len(agent.cbBuffer.bytes)

\* The part that holds: without the selection header, and with carriers
\* that never exceed what is left of their message, the copies stay inside
\* the buffer and the counter reaches zero exactly.
ReassemblyInBounds ==
  ~agent.cbSelection => (~hist.ub /\ agent.cbRemain >= 0)

(***************************************************************************)
(* SpecClose: a session with all channels up whose server closes channel   *)
(* sockets one by one.  Each purespice_process call is one step: it tears  *)
(* down the channels marked for it and the channels whose socket polls     *)
(* readable with no bytes, and returns RUN or SHUTDOWN.  The application   *)
(* may mark PLAYBACK for disconnection and may call purespice_disconnect.  *)
(***************************************************************************)
PeerClose(c) ==
  /\ c \notin hist.closed
  /\ hist' = [hist EXCEPT !.closed = @ \cup {c}]
  /\ UNCHANGED <<session, cm, channels, lock, wire, pc, tl, mouse, motionBuffer,
                 server, agent, net>>

\* purespice_process: the pending disconnects (lines 556-559), the
\* channels that poll readable with FIONREAD = 0 (lines 592-593, 753-756),
\* then RUN if a channel is still connected, else SHUTDOWN (lines 760-770).
process_close_mut ==
  /\ pc["proc"] = "idle"
  /\ session.epollfd = "open"
  /\ LET down == {c \in Channels :
                    \/ channels[c].initDone /\ channels[c].doDisconnect
                    \/ channels[c].connected /\ c \in hist.closed}
         chs == [c \in Channels |->
                   IF c \in down THEN [channels[c] EXCEPT !.connected = FALSE]
                   ELSE channels[c]]
     IN /\ down # {}
        /\ channels' = chs
        /\ wire' = wire
        /\ hist' = [hist EXCEPT
                      !.status = IF \E c \in Channels : chs[c].connected
                                 THEN "RUN" ELSE "SHUTDOWN"]
  /\ UNCHANGED <<session, cm, lock, pc, tl, mouse, motionBuffer, server, agent,
                 net>>
process_close ==
  /\ pc["proc"] = "idle"
  /\ session.epollfd = "open"
  /\ LET down == {c \in Channels :
                    \/ channels[c].initDone /\ channels[c].doDisconnect
                    \/ channels[c].connected /\ c \in hist.closed}
         chs == [c \in Channels |->
                   IF c \in down THEN channel_internal_disconnect(channels[c]).ch
                   ELSE channels[c]]
     IN /\ down # {}
        /\ channels' = chs
        /\ wire' = [c \in Channels |->
                      IF c \in down
                      THEN wire[c] \o channel_internal_disconnect(channels[c]).out
                      ELSE wire[c]]
        /\ hist' = [hist EXCEPT
                      !.status = IF \E c \in Channels : chs[c].connected
                                 THEN "RUN" ELSE "SHUTDOWN"]
  /\ UNCHANGED <<session, cm, lock, pc, tl, mouse, motionBuffer, server, agent,
                 net>>

InitClose ==
  /\ channels = [c \in Channels |-> [FrameChannel EXCEPT !.initDone = TRUE]]
  /\ lock = [l \in Locks |-> Free]
  /\ wire = [c \in Channels |-> <<>>]
  /\ pc = [t \in Threads |-> "idle"]
  /\ tl = [t \in Threads |-> IdleLocals]
  /\ mouse = [buttonState |-> {}, sentCount |-> 0]
  /\ motionBuffer = [gen |-> 0, size |-> 0, data |-> <<>>]
  /\ server = [motionAcks |-> 0, acksSent |-> 0]
  /\ hist = [status |-> "RUN", reconnects |-> 0, closed |-> {}]
  /\ agent = AgentIdle
  /\ net = NetIdle
  /\ session = SessionUp
  /\ cm = MainIdle

NextClose ==
  \/ \E c \in Channels : PeerClose(c)
  \/ process_close
  \/ disconnectChannel("PLAYBACK")
  \/ purespice_disconnect

SpecClose == InitClose /\ [][NextClose]_vars

\* C34: the session's connected flag is true if and only if at least one
\* channel is connected.
C34_ConnectedIff ==
  session.connected <=> \E c \in Channels : channels[c].connected

\* The part that holds: a connected channel implies the flag, and after
\* purespice_disconnect both are false.
ConnectedFlagCovers ==
  (\E c \in Channels : channels[c].connected) => session.connected

(***************************************************************************)
(* SpecBye: the receive path of SpecFrame with a server that may send      *)
(* DISCONNECTING (a 12-byte payload) among the channel's messages and      *)
(* keeps its end of the socket open.                                       *)
(***************************************************************************)
DisconnectingSize == 12

ByeMenu(c) ==
  {Msg("DISCONNECTING", DisconnectingSize, 0, 0)}
    \cup (IF c = "PLAYBACK" THEN {Msg("PLAYBACK_STOP", 0, 0, 0)}
          ELSE {Msg("INPUTS_INIT", InputsInitSize, 0, 0)})

ByeSend(c) ==
  /\ FrameUp
  /\ channels[c].connected /\ channels[c].ready
  /\ hist.sent < MaxSrvMsgs
  /\ net[c].delivered = StreamLen(net[c].msgs)
  /\ \E m \in ByeMenu(c) :
       net' = [net EXCEPT ![c].msgs = Append(@, m)]
  /\ hist' = [hist EXCEPT !.sent = @ + 1]
  /\ UNCHANGED <<session, cm, channels, lock, wire, pc, tl, mouse, motionBuffer,
                 server, agent>>

NextBye ==
  \/ process_entry
  \/ process_visit
  \/ \E c \in FrameChannels :
       \/ ByeSend(c)
       \/ ServerDeliver(c)

SpecBye == InitFrame /\ [][NextBye]_vars

\* The pass on channel c calls the handler of a DISCONNECTING message.
DisconnectingHandled(c) ==
  /\ HandlerCall(c)
  /\ tl'["proc"] # tl["proc"]
  /\ net[c].msgs[Visit(c).log[1]].type = "DISCONNECTING"

\* C35: when the handler of the server's DISCONNECTING has run, the
\* channel is marked for teardown (or torn down already), so that a
\* subsequent process call tears it down.
C35_Disconnecting ==
  [][\A c \in FrameChannels :
       DisconnectingHandled(c)
         => channels'[c].doDisconnect \/ ~channels'[c].connected]_vars

\* The part that holds: the DISCONNECTING message is dispatched to
\* onMessage_disconnecting and handled without an error status.
DisconnectingAccepted ==
  [][\A c \in FrameChannels :
       DisconnectingHandled(c)
         => /\ channels[c].handlerFn = "onMessage_disconnecting"
               \/ Visit(c).ch.handlerFn = "onMessage_disconnecting"
            /\ hist'.status = "RUN"]_vars

(***************************************************************************)
(* SpecTeardown: the session of SpecClose, with purespice_disconnect       *)
(* followed channel by channel.  hist.order is the sequence of channels    *)
(* the call tore down (each one sent its DISCONNECTING packet if it was    *)
(* ready), hist.calls the number of calls.                                 *)
(***************************************************************************)
\* g_ps.channels in the order of the PSChannelType enum, the display
\* channel left out.
ChannelTable == <<"MAIN", "INPUTS", "PLAYBACK", "RECORD">>

TableIndex(c) == CHOOSE i \in 1..Len(ChannelTable) : ChannelTable[i] = c

\* The channel the loop of purespice_disconnect visits at its k-th
\* iteration: i runs from PS_CHANNEL_MAX - 1 down to 0.
disconnect_visit_mut(k) == ChannelTable[k]
disconnect_visit(k) == ChannelTable[Len(ChannelTable) + 1 - k]

\* The loop of purespice_disconnect from its k-th iteration on.
RECURSIVE disconnect_loop(_, _)
disconnect_loop(k, acc) ==
  IF k > Len(ChannelTable) THEN acc
  ELSE LET c == disconnect_visit(k)
           D == channel_internal_disconnect(acc.chs[c])
       IN disconnect_loop(k + 1,
            [chs |-> [acc.chs EXCEPT ![c] = D.ch],
             wire |-> [acc.wire EXCEPT ![c] = @ \o D.out],
             order |-> IF acc.chs[c].connected THEN Append(acc.order, c)
                       ELSE acc.order])

\* purespice_disconnect: the loop, then the epoll descriptor is closed and
\* the motion buffer and the agent are released.  No poll follows the loop.
disconnect_inOrder ==
  /\ pc["proc"] = "idle"
  /\ session.connected
  /\ \E L \in {disconnect_loop(1, [chs |-> channels, wire |-> wire,
                                   order |-> <<>>])} :
       /\ channels' = L.chs
       /\ wire' = L.wire
       /\ hist' = [hist EXCEPT !.order = L.order, !.calls = @ + 1]
  /\ session' = [session EXCEPT !.connected = FALSE, !.epollfd = "closed"]
  /\ motionBuffer' = [motionBuffer EXCEPT !.data = <<>>]
  /\ agent' = AgentIdle
  /\ UNCHANGED <<cm, lock, pc, tl, mouse, server, net>>

InitTeardown ==
  /\ channels = [c \in Channels |-> [FrameChannel EXCEPT !.initDone = TRUE]]
  /\ lock = [l \in Locks |-> Free]
  /\ wire = [c \in Channels |-> <<>>]
  /\ pc = [t \in Threads |-> "idle"]
  /\ tl = [t \in Threads |-> IdleLocals]
  /\ mouse = [buttonState |-> {}, sentCount |-> 0]
  /\ motionBuffer = [gen |-> 0, size |-> 0, data |-> <<>>]
  /\ server = [motionAcks |-> 0, acksSent |-> 0]
  /\ hist = [status |-> "RUN", reconnects |-> 0, closed |-> {},
             order |-> <<>>, calls |-> 0]
  /\ agent = AgentIdle
  /\ net = NetIdle
  /\ session = SessionUp
  /\ cm = MainIdle

NextTeardown ==
  \/ \E c \in Channels : PeerClose(c)
  \/ process_close
  \/ disconnectChannel("PLAYBACK")
  \/ disconnect_inOrder

SpecTeardown == InitTeardown /\ [][NextTeardown]_vars

SessionIds == {1, 2}

\* The link packet getConnectPacket builds for channel c.
getConnectPacket(c, s) ==
  [channel |-> c, connection_id |-> s.sessionID, init |-> hist.init]

\* purespice_connect against a server that completes the handshake.
session_connect ==
  /\ ~session.connected
  /\ session.epollfd = "closed"
  /\ hist.sessions <= MaxReconnect
  /\ channels' = [channels EXCEPT !["MAIN"] = channel_connect(@)]
  /\ session' = [session EXCEPT !.connected = TRUE, !.epollfd = "open"]
  /\ hist' = [hist EXCEPT
                !.status = "RUN",
                !.sessions = @ + 1,
                !.init = 0,
                !.linked = {},
                !.links = Append(@, [getConnectPacket("MAIN", session)
                                       EXCEPT !.init = 0])]
  /\ cm' = MainIdle
  /\ UNCHANGED <<lock, wire, pc, tl, mouse, motionBuffer, server, agent, net>>

\* A process call that handles MAIN_INIT carrying session id id.
session_mainInit(id) ==
  /\ session.epollfd = "open"
  /\ channels["MAIN"].connected
  /\ ~channels["MAIN"].initDone
  /\ channels' = [channels EXCEPT !["MAIN"].initDone = TRUE]
  /\ session' = [session EXCEPT !.sessionID = id]
  /\ hist' = [hist EXCEPT !.init = id]
  /\ UNCHANGED <<cm, lock, wire, pc, tl, mouse, motionBuffer, server, agent,
                 net>>

\* ps_connectChannel for a channel other than MAIN, once MAIN_INIT and the
\* channels list are in.
session_connectChannel(c) ==
  /\ session.epollfd = "open"
  /\ channels["MAIN"].connected
  /\ channels["MAIN"].initDone
  /\ ~channels[c].connected
  /\ c \notin hist.linked
  /\ channels' = [channels EXCEPT ![c] = channel_connect(@)]
  /\ hist' = [hist EXCEPT !.links = Append(@, getConnectPacket(c, session)),
                          !.linked = @ \cup {c}]
  /\ UNCHANGED <<session, cm, lock, wire, pc, tl, mouse, motionBuffer, server,
                 agent, net>>

\* purespice_disconnect.
session_disconnect ==
  /\ session.connected
  /\ session' = [session EXCEPT !.connected = FALSE, !.epollfd = "closed"]
  /\ channels' = [c \in Channels |-> channel_internal_disconnect(channels[c]).ch]
  /\ wire' = [c \in Channels |->
                wire[c] \o channel_internal_disconnect(channels[c]).out]
  /\ hist' = [hist EXCEPT !.closed = {}]
  /\ agent' = AgentIdle
  /\ UNCHANGED <<cm, lock, pc, tl, mouse, motionBuffer, server, net>>

\* The server closes the socket of a connected channel.
session_peerClose(c) ==
  /\ channels[c].connected
  /\ c \notin hist.closed
  /\ hist' = [hist EXCEPT !.closed = @ \cup {c}]
  /\ UNCHANGED <<session, cm, channels, lock, wire, pc, tl, mouse,
                 motionBuffer, server, agent, net>>

\* A process call that finds the closed sockets: it tears their channels
\* down, and with no channel left connected it zeroes g_ps.sessionID and
\* returns SHUTDOWN.
session_process ==
  /\ session.epollfd = "open"
  /\ hist.closed # {}
  /\ \E chs \in {[c \in Channels |->
                    IF c \in hist.closed
                    THEN channel_internal_disconnect(channels[c]).ch
                    ELSE channels[c]]} :
       /\ channels' = chs
       /\ \E run \in {\E c \in Channels : chs[c].connected} :
            /\ session' = [session EXCEPT
                             !.sessionID = IF run THEN @ ELSE 0]
            /\ hist' = [hist EXCEPT
                          !.status = IF run THEN "RUN" ELSE "SHUTDOWN",
                          !.closed = {}]
  /\ wire' = [c \in Channels |->
                IF c \in hist.closed
                THEN wire[c] \o channel_internal_disconnect(channels[c]).out
                ELSE wire[c]]
  /\ UNCHANGED <<cm, lock, pc, tl, mouse, motionBuffer, server, agent, net>>

InitSession ==
  /\ channels = [c \in Channels |->
                   [FrameChannel EXCEPT !.available = FALSE,
                                        !.connected = FALSE,
                                        !.ready = FALSE]]
  /\ lock = [l \in Locks |-> Free]
  /\ wire = [c \in Channels |-> <<>>]
  /\ pc = [t \in Threads |-> "idle"]
  /\ tl = [t \in Threads |-> IdleLocals]
  /\ mouse = [buttonState |-> {}, sentCount |-> 0]
  /\ motionBuffer = [gen |-> 0, size |-> 0, data |-> <<>>]
  /\ server = [motionAcks |-> 0, acksSent |-> 0]
  /\ hist = [status |-> "RUN", sessions |-> 0, init |-> 0, links |-> <<>>,
             linked |-> {}, closed |-> {}]
  /\ agent = AgentIdle
  /\ net = NetIdle
  /\ session = [connected |-> FALSE, epollfd |-> "closed", sessionID |-> 0]
  /\ cm = MainIdle

NextSession ==
  \/ session_connect
  \/ \E id \in SessionIds : session_mainInit(id)
  \/ \E c \in FrameChannels : session_connectChannel(c)
  \/ session_disconnect
  \/ \E c \in FrameChannels \cup {"MAIN"} : session_peerClose(c)
  \/ session_process

SpecSession == InitSession /\ [][NextSession]_vars

\* C37: every link packet for MAIN carries connection_id 0, in a later
\* session of the process as in the first, and every link packet for
\* another channel carries the session id of the current session's
\* MAIN_INIT.
C37_LinkIds ==
  \A i \in 1..Len(hist.links) :
    hist.links[i].connection_id =
      (IF hist.links[i].channel = "MAIN" THEN 0 ELSE hist.links[i].init)

\* The part that holds: the link packets of the first session, and in
\* every session those of the channels other than MAIN.
FirstSessionLinkIds ==
  \A i \in 1..Len(hist.links) :
    (hist.sessions <= 1 \/ hist.links[i].channel # "MAIN")
      => hist.links[i].connection_id =
           (IF hist.links[i].channel = "MAIN" THEN 0 ELSE hist.links[i].init)

(***************************************************************************)
(* SpecReady: the session of SpecLink, MAIN up and the other channels to   *)
(* be connected by the channels list or by purespice_connectChannel, each  *)
(* handshake completing or failing at any of its steps, together with the  *)
(* teardowns of SpecClose: the server closes sockets, the application      *)
(* marks PLAYBACK for disconnection, purespice_process tears down, and     *)
(* the application calls purespice_disconnect.  hist.attempts logs the     *)
(* handshakes, at most MaxReconnect + 1 of them from the application.      *)
(***************************************************************************)
ready_connectChannel(c) ==
  /\ Len(hist.attempts) <= MaxReconnect
  /\ link_connectChannel("app1", c)

InitReady ==
  /\ \E au \in [FrameChannels -> BOOLEAN] :
       channels = [c \in Channels |->
                     [FrameChannel EXCEPT
                        !.available = FALSE,
                        !.connected = c = "MAIN",
                        !.ready = c = "MAIN",
                        !.initDone = c = "MAIN",
                        !.enable = c # "RECORD",
                        !.autoConnect = IF c \in FrameChannels
                                        THEN au[c] ELSE TRUE]]
  /\ lock = [l \in Locks |-> Free]
  /\ wire = [c \in Channels |-> <<>>]
  /\ pc = [t \in Threads |-> "idle"]
  /\ tl = [t \in Threads |-> IdleLocals]
  /\ mouse = [buttonState |-> {}, sentCount |-> 0]
  /\ motionBuffer = [gen |-> 0, size |-> 0, data |-> <<>>]
  /\ server = [motionAcks |-> 0, acksSent |-> 0]
  /\ hist = [status |-> "RUN", attempts |-> <<>>, reconnects |-> 0,
             closed |-> {}]
  /\ agent = AgentIdle
  /\ net = NetIdle
  /\ session = [connected |-> TRUE, epollfd |-> "open",
                registered |-> {"MAIN"}]
  /\ cm = MainIdle

NextReady ==
  \/ \E c \in FrameChannels : ready_connectChannel(c)
  \/ \E c \in FrameChannels : link_channelsList(c)
  \/ api_return("app1")
  \/ \E c \in Channels : PeerClose(c)
  \/ process_close
  \/ disconnectChannel("PLAYBACK")
  \/ purespice_disconnect

SpecReady == InitReady /\ [][NextReady]_vars

\* A handshake was attempted on channel c in this step, with deviation dev.
Attempted(c, dev) ==
  /\ Len(hist'.attempts) = Len(hist.attempts) + 1
  /\ hist'.attempts[Len(hist'.attempts)].channel = c
  /\ hist'.attempts[Len(hist'.attempts)].dev = dev

\* C38: a ready channel is connected; a channel becomes ready only in a
\* handshake whose link result was read as OK; and a channel is not ready
\* after a step that tore it down (deferred disconnect, session
\* disconnect, peer close) or in which its handshake failed.
C38_ReadyWithin ==
  [][\A c \in Channels :
       /\ channels'[c].ready => channels'[c].connected
       /\ (~channels[c].ready /\ channels'[c].ready) => Attempted(c, "none")
       /\ (channels[c].connected /\ ~channels'[c].connected)
            => ~channels'[c].ready
       /\ (\E dev \in Deviations : Attempted(c, dev))
            => ~channels'[c].ready]_vars

\* PLAYBACK completed its handshake, the server then closed its socket and
\* purespice_process tore it down; the session goes on.
C38_Witness ==
  /\ \E i \in 1..Len(hist.attempts) :
       hist.attempts[i].channel = "PLAYBACK" /\ hist.attempts[i].dev = "none"
  /\ "PLAYBACK" \in hist.closed
  /\ ~channels["PLAYBACK"].connected
  /\ ~channels["PLAYBACK"].ready
  /\ wire["PLAYBACK"] # <<>>
  /\ session.connected

(***************************************************************************)
(* SpecLocks: the spin locks (SPICE_LOCK is a test-and-set loop on an      *)
(* atomic flag, SPICE_UNLOCK clears the flag, SPICE_LOCK_INIT clears it    *)
(* too).  Each library call is followed through the statements that touch  *)
(* a lock or send on a socket; a send may fail, and what it sends is not   *)
(* followed here.  tl[t].prog is what is left of the call thread t is in,  *)
(* tl[t].held the locks it has taken and not yet released, hist.orders     *)
(* the pairs <<a, b>> of locks such that b was taken by a thread holding   *)
(* a.                                                                      *)
(***************************************************************************)
Lk(l) == [op |-> "lock", l |-> l, fail |-> <<>>]
Ul(l) == [op |-> "unlock", l |-> l, fail |-> <<>>]
\* A send on channel c; fail is what the call still does when it failed.
Sd(c, fail) == [op |-> "send", l |-> c, fail |-> fail]

\* SPICE_SEND_PACKET(channel, packet): lock, send, unlock.
SPICE_SEND_PACKET(c) == <<Lk(c), Sd(c, <<Ul(c)>>), Ul(c)>>

\* purespice_mouseMotion: the button state is read under the mouse lock,
\* the buffer is sent under the channel lock.
purespice_mouseMotion_locks ==
  <<Lk("mouse"), Ul("mouse"), Lk("INPUTS"), Sd("INPUTS", <<Ul("INPUTS")>>),
    Ul("INPUTS")>>

\* purespice_writeAudio: header and data are sent under the channel lock;
\* a failed header send unlocks and returns.
purespice_writeAudio_locks_mut ==
  <<Lk("RECORD"), Sd("RECORD", <<>>), Sd("RECORD", <<Ul("RECORD")>>),
    Ul("RECORD")>>
purespice_writeAudio_locks ==
  <<Lk("RECORD"), Sd("RECORD", <<Ul("RECORD")>>),
    Sd("RECORD", <<Ul("RECORD")>>), Ul("RECORD")>>

\* queue_push and queue_shift take and release the queue's lock.
queue_push_locks == <<Lk("queue"), Ul("queue")>>
queue_shift_locks == <<Lk("queue"), Ul("queue")>>

\* agent_processQueue sending k carriers: the main channel's lock is held
\* over the loop; each round shifts the queue and sends without locking;
\* a failed send unlocks and returns.
RECURSIVE processQueue_rounds(_)
processQueue_rounds(k) ==
  IF k = 0 THEN <<>>
  ELSE queue_shift_locks \o <<Sd("MAIN", <<Ul("MAIN")>>)>>
         \o processQueue_rounds(k - 1)
agent_processQueue_locks(k) ==
  <<Lk("MAIN")>> \o processQueue_rounds(k) \o <<Ul("MAIN")>>

\* agent_startMsg and agent_writeMsg: queue_push, then agent_processQueue.
agent_writeMsg_locks(k) == queue_push_locks \o agent_processQueue_locks(k)

\* The calls of an application thread and of the process thread.
LockCalls(t) ==
  IF t = "proc"
  THEN {[fn |-> "agentToken", prog |-> agent_processQueue_locks(k)] :
          k \in 0..MaxAgentMsgs}
       \cup {[fn |-> "ack", prog |-> SPICE_SEND_PACKET(c)] :
               c \in {"MAIN", "INPUTS"}}
  ELSE {[fn |-> "agentMsg", prog |-> agent_writeMsg_locks(k)] :
          k \in 0..MaxAgentMsgs}
       \cup {[fn |-> "mouseMotion", prog |-> purespice_mouseMotion_locks],
             [fn |-> "writeAudio", prog |-> purespice_writeAudio_locks]}

\* At most MaxCalls + 1 calls are followed, over all threads.
lock_call(t) ==
  /\ pc[t] = "idle"
  /\ hist.calls <= MaxCalls
  /\ \E C \in LockCalls(t) :
       tl' = [tl EXCEPT ![t] = [fn |-> C.fn, ret |-> TRUE, prog |-> C.prog,
                                held |-> {}]]
  /\ pc' = [pc EXCEPT ![t] = "run"]
  /\ hist' = [hist EXCEPT !.calls = @ + 1]
  /\ UNCHANGED <<session, cm, channels, lock, wire, mouse, motionBuffer,
                 server, agent, net>>

\* What is left of the call after its next statement.
Rest(t, prog) ==
  /\ tl' = [tl EXCEPT ![t].prog = prog,
                      ![t].held = CASE Head(tl[t].prog).op = "lock"
                                         -> @ \cup {Head(tl[t].prog).l}
                                    [] Head(tl[t].prog).op = "unlock"
                                         -> @ \ {Head(tl[t].prog).l}
                                    [] OTHER -> @]
  /\ pc' = [pc EXCEPT ![t] = IF prog = <<>> THEN "idle" ELSE "run"]

\* SPICE_LOCK: the loop ends when the flag was found clear.
lock_acquire(t) ==
  /\ pc[t] = "run"
  /\ Head(tl[t].prog).op = "lock"
  /\ lock[Head(tl[t].prog).l] = Free
  /\ lock' = [lock EXCEPT ![Head(tl[t].prog).l] = t]
  /\ hist' = [hist EXCEPT
                !.orders = @ \cup {<<h, Head(tl[t].prog).l>> : h \in tl[t].held}]
  /\ Rest(t, Tail(tl[t].prog))
  /\ UNCHANGED <<session, cm, channels, wire, mouse, motionBuffer, server,
                 agent, net>>

\* SPICE_UNLOCK
lock_release(t) ==
  /\ pc[t] = "run"
  /\ Head(tl[t].prog).op = "unlock"
  /\ lock' = [lock EXCEPT ![Head(tl[t].prog).l] = Free]
  /\ Rest(t, Tail(tl[t].prog))
  /\ UNCHANGED <<session, cm, channels, wire, mouse, motionBuffer, server,
                 hist, agent, net>>

\* send(): all of it written, or not.
lock_send(t) ==
  /\ pc[t] = "run"
  /\ Head(tl[t].prog).op = "send"
  /\ \/ Rest(t, Tail(tl[t].prog))
     \/ \E prog \in {Head(tl[t].prog).fail} :
          /\ tl' = [tl EXCEPT ![t].prog = prog, ![t].ret = FALSE]
          /\ pc' = [pc EXCEPT ![t] = IF prog = <<>> THEN "idle" ELSE "run"]
  /\ UNCHANGED <<session, cm, channels, lock, wire, mouse, motionBuffer,
                 server, hist, agent, net>>

\* channel_connect on a channel whose earlier connection was torn down:
\* SPICE_LOCK_INIT of the channel's lock, and of the mouse lock for INPUTS.
lock_init(c) ==
  /\ pc["proc"] = "idle"
  /\ hist.inits < MaxReconnect
  /\ lock' = [l \in Locks |->
                IF l = c \/ (l = "mouse" /\ c = "INPUTS") THEN Free
                ELSE lock[l]]
  /\ hist' = [hist EXCEPT !.inits = @ + 1]
  /\ UNCHANGED <<session, cm, channels, wire, pc, tl, mouse, motionBuffer,
                 server, agent, net>>

InitLocks ==
  /\ channels = InputsUp
  /\ lock = [l \in Locks |-> Free]
  /\ wire = [c \in Channels |-> <<>>]
  /\ pc = [t \in Threads |-> "idle"]
  /\ tl = [t \in Threads |->
             [fn |-> "none", ret |-> TRUE, prog |-> <<>>, held |-> {}]]
  /\ mouse = [buttonState |-> {}, sentCount |-> 0]
  /\ motionBuffer = [gen |-> 0, size |-> 0, data |-> <<>>]
  /\ server = [motionAcks |-> 0, acksSent |-> 0]
  /\ hist = [calls |-> 0, orders |-> {}, inits |-> 0]
  /\ agent = AgentIdle
  /\ net = NetIdle
  /\ session = SessionUp
  /\ cm = MainIdle

NextLocks ==
  \/ \E t \in Threads : lock_call(t)
  \/ \E t \in Threads : lock_acquire(t)
  \/ \E t \in Threads : lock_release(t)
  \/ \E t \in Threads : lock_send(t)
  \/ \E c \in {"INPUTS", "RECORD"} : lock_init(c)

SpecLocks == InitLocks /\ [][NextLocks]_vars

\* Thread t spins in SPICE_LOCK on a lock that is taken.
Spinning(t) ==
  /\ pc[t] = "run"
  /\ Head(tl[t].prog).op = "lock"
  /\ lock[Head(tl[t].prog).l] # Free

\* C39: a thread that has returned holds no lock; no thread waits for a
\* lock it holds itself; no two locks are ever taken in both orders; and
\* whenever a call is under way some thread in a call can take its next
\* step, so that the threads that spin are waiting for one that moves.
C39_LockDiscipline ==
  /\ \A t \in Threads :
       pc[t] = "idle" => tl[t].held = {} /\ \A l \in Locks : lock[l] # t
  /\ \A t \in Threads :
       (pc[t] = "run" /\ Head(tl[t].prog).op = "lock")
         => Head(tl[t].prog).l \notin tl[t].held
  /\ \A a, b \in Locks :
       ~(<<a, b>> \in hist.orders /\ <<b, a>> \in hist.orders)
  /\ (\E t \in Threads : pc[t] = "run")
       => \E t \in Threads : pc[t] = "run" /\ ~Spinning(t)

\* One thread holds the main channel's lock and the queue's lock inside
\* it, the process thread spins on the main channel's lock, and the other
\* application thread has returned false from a purespice_writeAudio whose
\* send failed.
C39_Witness ==
  /\ lock["MAIN"] = "app1"
  /\ lock["queue"] = "app1"
  /\ Spinning("proc")
  /\ pc["app2"] = "idle"
  /\ tl["app2"].fn = "writeAudio"
  /\ ~tl["app2"].ret
  /\ lock["RECORD"] = Free

(***************************************************************************)
(* SpecClipLife: SpecClipOver with clipboard messages that may be empty,   *)
(* a malloc that may return NULL, and an agent that may disconnect and     *)
(* start again (agent_disconnect, agent_connect), as the server reports    *)
(* it.  hist.restarts counts the disconnects.                              *)
(***************************************************************************)
\* agent_process on the first carrier of a CLIPBOARD message when malloc
\* returns NULL (for a size of zero it may): PS_STATUS_ERROR, nothing
\* assigned.
agent_process_nomem ==
  /\ net.carriers # <<>>
  /\ hist.status = "RUN"
  /\ agent.cbRemain = 0
  /\ Head(net.carriers).first
  /\ agent.cbBuffer.null
  /\ net' = [net EXCEPT !.carriers = Tail(@)]
  /\ hist' = [hist EXCEPT !.status = "ERROR"]
  /\ UNCHANGED <<session, cm, channels, lock, wire, pc, tl, mouse,
                 motionBuffer, server, agent>>

\* agent_disconnect: the buffer is freed and the transfer state cleared.
\* What the agent had still to send is lost with it.
cliplife_agentDisconnected ==
  /\ agent.present
  /\ hist.status = "RUN"
  /\ hist.restarts < MaxReconnect
  /\ agent' = [agent EXCEPT !.cbBuffer = NullBlock, !.cbRemain = 0,
                            !.cbSize = 0, !.present = FALSE]
  /\ net' = [net EXCEPT !.carriers = <<>>, !.rest = <<>>]
  /\ hist' = [hist EXCEPT !.restarts = @ + 1]
  /\ UNCHANGED <<session, cm, channels, lock, wire, pc, tl, mouse,
                 motionBuffer, server>>

\* agent_connect: the transfer state is left as it is.
cliplife_agentConnected ==
  /\ ~agent.present
  /\ hist.status = "RUN"
  /\ agent' = [agent EXCEPT !.present = TRUE]
  /\ UNCHANGED <<session, cm, channels, lock, wire, pc, tl, mouse,
                 motionBuffer, server, hist, net>>

InitClipLife ==
  /\ channels = InputsUp
  /\ lock = [l \in Locks |-> Free]
  /\ wire = [c \in Channels |-> <<>>]
  /\ pc = [t \in Threads |-> "idle"]
  /\ tl = [t \in Threads |-> IdleLocals]
  /\ mouse = [buttonState |-> {}, sentCount |-> 0]
  /\ motionBuffer = [gen |-> 0, size |-> 0, data |-> <<>>]
  /\ server = [motionAcks |-> 0, acksSent |-> 0]
  /\ hist = [callbacks |-> <<>>, ub |-> FALSE, status |-> "RUN",
             restarts |-> 0]
  /\ \E sel \in BOOLEAN :
       agent = [present |-> TRUE, cbSelection |-> sel, cbBuffer |-> NullBlock,
                cbSize |-> 0, cbRemain |-> 0]
  /\ net = [carriers |-> <<>>, rest |-> <<>>, cur |-> <<>>, done |-> <<>>]
  /\ session = SessionUp
  /\ cm = MainIdle

NextClipLife ==
  \/ /\ agent.present
     /\ \/ \E T \in 0..MaxClipLen : \E k \in 0..T : ServerClipboardFirst(T, k)
        \/ \E k \in 1..MaxClipLen : ServerClipboardNext(k)
        \/ \E k \in 1..MaxClipLen : ServerClipboardOver(k)
  \/ agent_process
  \/ agent_process_nomem
  \/ cliplife_agentDisconnected
  \/ cliplife_agentConnected

SpecClipLife == InitClipLife /\ [][NextClipLife]_vars

\* C40: between agent messages the reassembly buffer is allocated if and
\* only if cbRemain + cbSize > 0; the two counters being unsigned, that is
\* if and only if one of them is not zero.
C40_BufferIff ==
  ~agent.cbBuffer.null <=> (agent.cbRemain # 0 \/ agent.cbSize # 0)

\* An empty clipboard message was delivered to the callback, the agent has
\* disconnected in the middle of a later transfer and has started again:
\* no buffer is held and both counters are zero.
C40_Witness ==
  /\ \E i \in 1..Len(hist.callbacks) : hist.callbacks[i] = <<>>
  /\ hist.restarts > 0
  /\ agent.present
  /\ agent.cbBuffer.null
  /\ agent.cbRemain = 0
  /\ agent.cbSize = 0
  /\ Len(net.done) < MaxClipMsgs

=============================================================================
